---- MODULE Spec2Model ----
(***************************************************************************)
(* A model of the judge crate's workflow engine                            *)
(* (crates/judge/src/workflow.rs): Workflow::parse, Workflow::exec and the *)
(* Cmd implementations it schedules.                                       *)
(*                                                                         *)
(* File names are strings, sandbox file ids are the positive integers in   *)
(* the order the sandbox hands them out, task indices are 0-based as in    *)
(* the source.                                                             *)
(***************************************************************************)
EXTENDS Integers, Sequences, FiniteSets, TLC

(***************************************************************************)
(* Bounds of the model.                                                    *)
(***************************************************************************)
MaxTasks == 2

Names == {"a", "b", "c"}

(***************************************************************************)
(* Commands.  A command's extra copy_in map sends workflow files (its      *)
(* values) to sandbox file names (its keys); the commands of this model    *)
(* carry the empty map.                                                    *)
(***************************************************************************)
EmptyMap == [k \in {} |-> k]

CopyInMaps == {EmptyMap}

CompileCmd ==
  [type : {"compile"}, code : Names, copy_in : CopyInMaps, exec : Names]

JudgeBatchCmd ==
  [type : {"judge_batch"}, exec : Names, inf : Names, copy_in : CopyInMaps,
   copy_out : Names]

Cmd == CompileCmd \cup JudgeBatchCmd

\* The main input fields of a command, in the order exec awaits them.
MainInputs(cmd) ==
  IF cmd.type = "compile" THEN <<cmd.code>> ELSE <<cmd.exec, cmd.inf>>

Range(s) == {s[k] : k \in DOMAIN s}

\* Cmd::get_copy_in: the keys of copy_in and the main input fields.
GetCopyIn(cmd) == (DOMAIN cmd.copy_in) \cup Range(MainInputs(cmd))

\* Cmd::get_copy_out: the single output file of the command.
GetCopyOut(cmd) ==
  IF cmd.type = "compile" THEN {cmd.exec} ELSE {cmd.copy_out}

\* Some enumeration of a finite set (HashMap iteration order).
SeqOf(S) == CHOOSE s \in [1..Cardinality(S) -> S] : Range(s) = S

\* Only the first main input is awaited.
AwaitsFirst(cmd) == <<Head(MainInputs(cmd))>>

\* The receivers Cmd::exec removes from copy_in_receivers, in order: the main
\* inputs, then the value of each entry of copy_in.
Awaits(cmd) ==
  LET keys == SeqOf(DOMAIN cmd.copy_in)
  IN MainInputs(cmd) \o [n \in 1..Len(keys) |-> cmd.copy_in[keys[n]]]

\* The workflows with n tasks.
Workflow(n) ==
  [copy_in : SUBSET Names, tasks : [0..(n - 1) -> Cmd], copy_out : SUBSET Names]

NumTasks(w) == Cardinality(DOMAIN w.tasks)

Tasks(w) == DOMAIN w.tasks

\* The output file name of task i.
OutOf(w, i) == CHOOSE f \in GetCopyOut(w.tasks[i]) : TRUE

(***************************************************************************)
(* Workflow::parse.                                                        *)
(***************************************************************************)
DuplicateCopyIn(i, name) ==
  [kind |-> "DuplicateFile", variant |-> "CopyIn", index |-> i, name |-> name]

\* A scan that reports the two indices of a duplicate the wrong way round.
DuplicatePrevSwapped(prev_idx, i, name) ==
  [kind |-> "DuplicateFile", variant |-> "Prev", index1 |-> i,
   index2 |-> prev_idx, name |-> name]

DuplicatePrev(prev_idx, i, name) ==
  [kind |-> "DuplicateFile", variant |-> "Prev", index1 |-> prev_idx,
   index2 |-> i, name |-> name]

InvalidTarget(i, name) ==
  [kind |-> "InvalidFile", variant |-> "Target", index |-> i, name |-> name]

InvalidGlobal(name) ==
  [kind |-> "InvalidFile", variant |-> "Global", name |-> name]

ParseErr(e) == [ok |-> FALSE, error |-> e]

ParseOk(providers) == [ok |-> TRUE, providers |-> providers]

\* A scan that never compares an output with the global copy_in.
IsGlobalCopyInSkipped(w, ouf) == FALSE

\* self.copy_in.contains_key(ouf)
IsGlobalCopyIn(w, ouf) == ouf \in w.copy_in

\* A scan that overwrites the provider of an output without looking at the
\* previous one.
HasProviderIgnored(providers, ouf) == FALSE

\* providers.insert(ouf, i) returned Some(prev_idx)
HasProvider(providers, ouf) == ouf \in DOMAIN providers

\* The first loop over the tasks: record the provider of each output file.
\* providers maps an output file name to the index of the task that
\* declares it.
RECURSIVE ScanCopyOut(_, _, _)
ScanCopyOut(w, i, providers) ==
  IF i >= NumTasks(w) THEN ParseOk(providers)
  ELSE LET ouf == OutOf(w, i) IN
       IF IsGlobalCopyIn(w, ouf) THEN ParseErr(DuplicateCopyIn(i, ouf))
       ELSE IF HasProvider(providers, ouf)
            THEN ParseErr(DuplicatePrev(providers[ouf], i, ouf))
            ELSE ScanCopyOut(w, i + 1, (ouf :> i) @@ providers)

\* An input check that looks at the global copy_in only.
InputUnresolvedCopyInOnly(w, providers, inf) == inf \notin w.copy_in

\* !self.copy_in.contains_key(inf) && !providers.contains_key(inf)
InputUnresolved(w, providers, inf) ==
  inf \notin w.copy_in /\ inf \notin DOMAIN providers

UnresolvedInputs(w, providers, i) ==
  {inf \in GetCopyIn(w.tasks[i]) : InputUnresolved(w, providers, inf)}

\* A copy_out check that takes the global copy_in as a provider too.
GlobalUnprovidedOrCopyIn(w, providers, ouf) ==
  ouf \notin DOMAIN providers /\ ouf \notin w.copy_in

\* !providers.contains_key(ouf)
GlobalUnprovided(w, providers, ouf) == ouf \notin DOMAIN providers

UnprovidedCopyOut(w, providers) ==
  {ouf \in w.copy_out : GlobalUnprovided(w, providers, ouf)}

\* Every value parse may return.  The sets get_copy_in() and self.copy_out
\* are iterated in hash order, so when several names of one set are in
\* error any of them may be the one reported.
ParseResults(w) ==
  LET first == ScanCopyOut(w, 0, EmptyMap) IN
  IF ~first.ok THEN {first}
  ELSE LET providers == first.providers
           bad == {i \in Tasks(w) : UnresolvedInputs(w, providers, i) # {}}
       IN IF bad # {}
          THEN LET i == CHOOSE j \in bad : \A k \in bad : j <= k IN
               {ParseErr(InvalidTarget(i, inf)) :
                  inf \in UnresolvedInputs(w, providers, i)}
          ELSE IF UnprovidedCopyOut(w, providers) # {}
               THEN {ParseErr(InvalidGlobal(ouf)) :
                       ouf \in UnprovidedCopyOut(w, providers)}
               ELSE {ParseOk(providers)}

\* The keys of file_receivers: one watch channel per global copy_in file and
\* per task output.
FileReceivers(w) == w.copy_in \cup {OutOf(w, i) : i \in Tasks(w)}

(***************************************************************************)
(* State of one call of Workflow::exec.                                    *)
(***************************************************************************)
VARIABLES
  wf,         \* the workflow exec is called on
  phase,      \* where exec is: "start", "upload", "tasks", "clean",
              \* "returned", "panicked"
  parsed,     \* what parse returned
  channel,    \* the value of each file's watch channel: 0 is the initial
              \* empty string, otherwise the file id that was sent
  pc,         \* per task: "init", "await", "running", "done", "failed",
              \* "cancelled", "panicked"
  pos,        \* per task: the place in Awaits of the receiver it takes next
  nextId,     \* the next file id the sandbox hands out
  deleted,    \* the file ids a file_delete was issued for
  toClean,    \* files_to_clean
  res,        \* the map exec collected from file_receivers
  result,     \* what exec returned
  started,    \* the tasks whose primitive has been requested from the sandbox
  events,     \* the events sent on the status stream so far
  closed      \* whether the status stream is closed

vars ==
  <<wf, phase, parsed, channel, pc, pos, nextId, deleted, toClean, res, result,
    started, events, closed>>

(***************************************************************************)
(* State of one call of Problem::judge (or of Subtask::judge alone).  The  *)
(* workflow engine and the problem judger are separate programs: each      *)
(* specification leaves the state of the other one idle.                   *)
(***************************************************************************)
VARIABLES
  problem,    \* the problem judge is called on
  jphase,     \* where judge is: "idle", "setup", "sol_compiled", "judging",
              \* "finished", "returned" (after CompileErr), "panicked";
              \* "subtask" when Subtask::judge is called on its own
  sub,        \* per subtask: the place of its coroutine and its local score
  latch,      \* per subtask: the watch channel of its score
  response,   \* per subtask and test: what the sandbox answered to the run
              \* of the user solution
  run,        \* per subtask and test: what judge_batch returned
  checked,    \* per subtask and test: what checker::check returned
  record,     \* per subtask and test: the record of the test
  ret,        \* per subtask: what its coroutine returned
  stream,     \* the events sent on status_tx so far
  ops,        \* the sandbox operations requested so far
  released    \* the tests whose stdout file a delete was issued for

jvars ==
  <<problem, jphase, sub, latch, response, run, checked, record, ret, stream,
    ops, released>>

\* No problem is being judged.
JudgeIdle ==
  /\ problem = [subtasks |-> EmptyMap]
  /\ jphase = "idle"
  /\ sub = EmptyMap
  /\ latch = EmptyMap
  /\ response = EmptyMap
  /\ run = EmptyMap
  /\ checked = EmptyMap
  /\ record = EmptyMap
  /\ ret = EmptyMap
  /\ stream = <<>>
  /\ ops = {}
  /\ released = {}

VARIABLES
  max_job,    \* the capacity of the semaphore of the sandbox client
  call        \* per caller of the sandbox client: the call it is in

cvars == <<max_job, call>>

\* The sandbox client has no caller.
ClientIdle ==
  /\ max_job = 0
  /\ call = EmptyMap

VARIABLES
  handle,     \* per sandbox file: whether a handle was made for it, the
              \* number of handles that hold it, the number of clones made
  issued      \* per sandbox file: the number of deletes issued for it

hvars == <<handle, issued>>

\* No sandbox file has a handle.
HandlesIdle ==
  /\ handle = EmptyMap
  /\ issued = EmptyMap

VARIABLES
  output,     \* the output of a checker, as the pieces it is made of
  parsed_out  \* what Output::parse returned for it

pvars == <<output, parsed_out>>

\* No checker output is being parsed.
ParserIdle ==
  /\ output = <<>>
  /\ parsed_out = [some |-> FALSE]

VARIABLES
  msg,        \* the bytes of a string given to limit_message
  limited,    \* what limit_message returned for it
  relimited   \* what limit_message returned for that

mvars == <<msg, limited, relimited>>

\* No message is being limited.
MessageIdle ==
  /\ msg = <<>>
  /\ limited = [some |-> FALSE]
  /\ relimited = [some |-> FALSE]

VARIABLES
  tcmd,       \* a command whose exec is called on its own
  receivers,  \* the names left in its copy_in_receivers
  tpc,        \* where its exec is: "idle", "await", "running", "panicked"
  tpos        \* the place in Awaits of the receiver it takes next

dvars == <<tcmd, receivers, tpc, tpos>>

\* No command is executed on its own.
DeclareIdle ==
  /\ tcmd = EmptyMap
  /\ receivers = {}
  /\ tpc = "idle"
  /\ tpos = 0

VARIABLES
  build,      \* which Client::run the build holds: that of crates/judge or
              \* that of src/service
  rpc,        \* per request: where the run call that makes it is
  senders,    \* the request ids of Client::senders
  wire,       \* the requests the sandbox got and has not answered
  delivered,  \* the requests whose receiver got a result
  lost        \* the requests whose response found no sender

wvars == <<build, rpc, senders, wire, delivered, lost>>

\* No WebSocket client exists.
SocketIdle ==
  /\ build = "none"
  /\ rpc = EmptyMap
  /\ senders = {}
  /\ wire = {}
  /\ delivered = {}
  /\ lost = {}

VARIABLES
  input_file,     \* what the making of the input of a test returned
  answer_file,    \* what the making of its answer returned
  execute_result, \* what judge_batch returned for the user solution
  checker_result, \* what the checker returned
  test_record,    \* the record Test::judge returned
  first_done      \* which of the two joined futures was over first

tvars ==
  <<input_file, answer_file, execute_result, checker_result, test_record,
    first_done>>

\* No test is judged on its own.
TestIdle ==
  /\ input_file = [some |-> FALSE]
  /\ answer_file = [some |-> FALSE]
  /\ execute_result = [some |-> FALSE]
  /\ checker_result = [some |-> FALSE]
  /\ test_record = [some |-> FALSE]
  /\ first_done = "none"

\* The variables of the components that are modelled on their own.
xvars == <<cvars, hvars, pvars, mvars, dvars, wvars, tvars>>

\* None of these components is running.
XIdle ==
  ClientIdle /\ HandlesIdle /\ ParserIdle /\ MessageIdle /\ DeclareIdle /\ SocketIdle
    /\ TestIdle

\* What a step of the sandbox client leaves alone.
ClientFrame ==
  <<vars, jvars, hvars, pvars, mvars, dvars, wvars, tvars>>

\* What a step of a file handle leaves alone.
HandleFrame ==
  <<vars, jvars, cvars, pvars, mvars, dvars, wvars, tvars>>

\* What a step of the checker output parser leaves alone.
ParserFrame ==
  <<vars, jvars, cvars, hvars, mvars, dvars, wvars, tvars>>

\* What a step of limit_message leaves alone.
MessageFrame ==
  <<vars, jvars, cvars, hvars, pvars, dvars, wvars, tvars>>

\* What a step of a command executed on its own leaves alone.
DeclareFrame ==
  <<vars, jvars, cvars, hvars, pvars, mvars, wvars, tvars>>

\* What a step of a test judged on its own leaves alone.
TestFrame == <<vars, jvars, cvars, hvars, pvars, mvars, dvars, wvars>>

\* What a step of the WebSocket client leaves alone.
SocketFrame ==
  <<vars, jvars, cvars, hvars, pvars, mvars, dvars, tvars>>

NotParsed == [ok |-> FALSE, error |-> [kind |-> "none"]]

NoResult == [ok |-> FALSE, error |-> [kind |-> "none"]]

ErrParse(e) == [ok |-> FALSE, error |-> [kind |-> "Parse", source |-> e]]

ErrSandbox == [ok |-> FALSE, error |-> [kind |-> "Sandbox"]]

\* The failure of a task is returned as a sandbox error.
ErrExecuteAsSandbox(i) == ErrSandbox

\* An error that carries the index of the last task of the list instead of
\* the index of the task that failed.
ErrExecuteLast(i) ==
  [ok |-> FALSE, error |-> [kind |-> "Execute", index |-> NumTasks(wf) - 1]]

ErrExecute(i) == [ok |-> FALSE, error |-> [kind |-> "Execute", index |-> i]]

Ok(files) == [ok |-> TRUE, files |-> files]

(***************************************************************************)
(* The status stream of a workflow execution: CompleteOne(task_index) for  *)
(* each task that completes, then one terminal event, Err(error) or        *)
(* Finished(files), after which the stream is closed.                      *)
(***************************************************************************)
CompleteOne(i) == [type |-> "CompleteOne", index |-> i]

ErrEvent(r) == [type |-> "Err", error |-> r.error]

Finished(files) == [type |-> "Finished", files |-> files]

IsTerminal(e) == e.type \in {"Err", "Finished"}

\* Send event e on the status stream; a terminal event closes the stream.
Emit(e) ==
  /\ events' = Append(events, e)
  /\ closed' = IsTerminal(e)

\* The file ids the sandbox has created so far.
Created == 1..(nextId - 1)

Init ==
  /\ \E n \in 0..MaxTasks : wf \in Workflow(n)
  /\ phase = "start"
  /\ parsed = NotParsed
  /\ channel = [f \in Names |-> 0]
  /\ pc = [i \in Tasks(wf) |-> "init"]
  /\ pos = [i \in Tasks(wf) |-> 1]
  /\ nextId = 1
  /\ deleted = {}
  /\ toClean = {}
  /\ res = EmptyMap
  /\ result = NoResult
  /\ started = {}
  /\ events = <<>>
  /\ closed = FALSE
  /\ JudgeIdle
  /\ XIdle

\* exec goes on to the upload loop whatever parse returned.
ParseIgnored ==
  /\ phase = "start"
  /\ \E r \in ParseResults(wf) : parsed' = r
  /\ phase' = "upload"
  /\ UNCHANGED <<wf, channel, pc, pos, nextId, deleted, toClean, res, result,
                 started, events, closed>>

\* exec calls parse and returns its error.
Parse ==
  /\ phase = "start"
  /\ \E r \in ParseResults(wf) :
       /\ parsed' = r
       /\ IF r.ok
          THEN /\ phase' = "upload"
               /\ UNCHANGED <<result, events, closed>>
          ELSE /\ phase' = "returned"
               /\ result' = ErrParse(r.error)
               /\ Emit(ErrEvent(ErrParse(r.error)))
  /\ UNCHANGED <<wf, channel, pc, pos, nextId, deleted, toClean, res, started>>

\* One round of the upload loop: file_add of a global copy_in file, then
\* the file id is sent on the file's channel.  A failed file_add makes exec
\* return the sandbox error.
Upload ==
  /\ phase = "upload"
  /\ \E f \in wf.copy_in :
       /\ channel[f] = 0
       /\ \/ /\ channel' = [channel EXCEPT ![f] = nextId]
             /\ nextId' = nextId + 1
             /\ UNCHANGED <<phase, result, events, closed>>
          \/ /\ phase' = "returned"
             /\ result' = ErrSandbox
             /\ Emit(ErrEvent(ErrSandbox))
             /\ UNCHANGED <<channel, nextId>>
  /\ UNCHANGED <<wf, parsed, pc, pos, deleted, toClean, res, started>>

\* The upload loop is over: the task futures are created and polled.
StartTasks ==
  /\ phase = "upload"
  /\ \A f \in wf.copy_in : channel[f] # 0
  /\ phase' = "tasks"
  /\ UNCHANGED <<wf, parsed, channel, pc, pos, nextId, deleted, toClean, res,
                 result, started, events, closed>>

\* try_collect returns the first error a task future yields and drops the
\* futures that are left.
FailAt(i) ==
  [j \in Tasks(wf) |->
     IF j = i THEN "failed" ELSE IF pc[j] = "done" THEN "done" ELSE "cancelled"]

\* Task i is polled for the first time: the language lookup.
TaskLang(i) ==
  /\ phase = "tasks"
  /\ pc[i] = "init"
  /\ \/ /\ pc' = [pc EXCEPT ![i] = "await"]
        /\ UNCHANGED <<phase, result, events, closed>>
     \/ /\ pc' = FailAt(i)
        /\ phase' = "returned"
        /\ result' = ErrExecute(i)
        /\ Emit(ErrEvent(ErrExecute(i)))
  /\ UNCHANGED <<wf, parsed, channel, pos, nextId, deleted, toClean, res,
                 started>>

\* The receivers task i has removed from its map so far.
Removed(i) == {Awaits(wf.tasks[i])[k] : k \in 1..(pos[i] - 1)}

\* Task i takes its next receiver out of copy_in_receivers and awaits
\* changed() on it.  Taking a receiver that is not in the map panics; after
\* the last receiver the request of the primitive is sent.
TaskAwait(i) ==
  /\ phase = "tasks"
  /\ pc[i] = "await"
  /\ LET f == Awaits(wf.tasks[i])[pos[i]] IN
       IF f \notin GetCopyIn(wf.tasks[i]) \ Removed(i)
       THEN /\ phase' = "panicked"
            /\ pc' = [pc EXCEPT ![i] = "panicked"]
            /\ UNCHANGED <<pos, started>>
       ELSE /\ channel[f] # 0
            /\ pos' = [pos EXCEPT ![i] = pos[i] + 1]
            /\ IF pos[i] = Len(Awaits(wf.tasks[i]))
               THEN /\ pc' = [pc EXCEPT ![i] = "running"]
                    /\ started' = started \cup {i}
               ELSE UNCHANGED <<pc, started>>
            /\ phase' = phase
  /\ UNCHANGED <<wf, parsed, channel, nextId, deleted, toClean, res, result,
                 events, closed>>

\* The primitive of task i returns: on success the new file id is sent on
\* the channel of the task's output, on failure the task returns the error.
TaskFinish(i) ==
  /\ phase = "tasks"
  /\ pc[i] = "running"
  /\ \/ /\ channel' = [channel EXCEPT ![OutOf(wf, i)] = nextId]
        /\ nextId' = nextId + 1
        /\ pc' = [pc EXCEPT ![i] = "done"]
        /\ Emit(CompleteOne(i))
        /\ UNCHANGED <<phase, result>>
     \/ /\ pc' = FailAt(i)
        /\ phase' = "returned"
        /\ result' = ErrExecute(i)
        /\ Emit(ErrEvent(ErrExecute(i)))
        /\ UNCHANGED <<channel, nextId>>
  /\ UNCHANGED <<wf, parsed, pos, deleted, toClean, res, started>>

\* A clean-up that takes every file of the workflow.
FilesToCleanAll(w, ch) ==
  {ch[f] : f \in w.copy_in \cup {OutOf(w, i) : i \in Tasks(w)}}

\* files_to_clean: the ids of the global copy_in files and of the task
\* outputs that are not in copy_out.
FilesToClean(w, ch) ==
  {ch[f] : f \in {g \in w.copy_in : g \notin w.copy_out}}
    \cup {ch[OutOf(w, i)] : i \in {j \in Tasks(w) : OutOf(w, j) \notin w.copy_out}}

\* The map exec returns: every entry of file_receivers with its file id.
CollectFiles(w, ch) == [f \in FileReceivers(w) |-> ch[f]]

\* The clean-up starts without waiting for the tasks: files_to_clean holds
\* the ids that are known by then.
CollectEarly ==
  /\ phase = "tasks"
  /\ res' = CollectFiles(wf, channel)
  /\ toClean' = FilesToClean(wf, channel) \ {0}
  /\ phase' = "clean"
  /\ UNCHANGED <<wf, parsed, channel, pc, pos, nextId, deleted, result, started,
                 events, closed>>

\* Every task returned Ok: exec reads every channel of file_receivers and
\* computes files_to_clean.
Collect ==
  /\ phase = "tasks"
  /\ \A i \in Tasks(wf) : pc[i] = "done"
  /\ \A f \in FileReceivers(wf) : channel[f] # 0
  /\ res' = CollectFiles(wf, channel)
  /\ toClean' = FilesToClean(wf, channel)
  /\ phase' = "clean"
  /\ UNCHANGED <<wf, parsed, channel, pc, pos, nextId, deleted, result, started,
                 events, closed>>

\* One round of the clean loop.
Delete ==
  /\ phase = "clean"
  /\ \E id \in toClean \ deleted : deleted' = deleted \cup {id}
  /\ UNCHANGED <<wf, phase, parsed, channel, pc, pos, nextId, toClean, res,
                 result, started, events, closed>>

\* The clean loop is over: exec returns the collected map.
Return ==
  /\ phase = "clean"
  /\ toClean \subseteq deleted
  /\ phase' = "returned"
  /\ result' = Ok(res)
  /\ Emit(Finished(res))
  /\ UNCHANGED <<wf, parsed, channel, pc, pos, nextId, deleted, toClean, res,
                 started>>

Next ==
  \/ Parse /\ UNCHANGED <<jvars, xvars>>
  \/ Upload /\ UNCHANGED <<jvars, xvars>>
  \/ StartTasks /\ UNCHANGED <<jvars, xvars>>
  \/ \E i \in Tasks(wf) : TaskLang(i) /\ UNCHANGED <<jvars, xvars>>
  \/ \E i \in Tasks(wf) : TaskAwait(i) /\ UNCHANGED <<jvars, xvars>>
  \/ \E i \in Tasks(wf) : TaskFinish(i) /\ UNCHANGED <<jvars, xvars>>
  \/ Collect /\ UNCHANGED <<jvars, xvars>>
  \/ Delete /\ UNCHANGED <<jvars, xvars>>
  \/ Return /\ UNCHANGED <<jvars, xvars>>

Spec == Init /\ [][Next]_<<vars, jvars, xvars>>

(***************************************************************************)
(* What a workflow declares, stated without reference to parse.            *)
(***************************************************************************)
Min(S) == CHOOSE x \in S : \A y \in S : x <= y

TaskOutputs(w) == {OutOf(w, i) : i \in Tasks(w)}

\* The producers of file f: task indices, and -1 for the global copy_in.
Producers(w, f) ==
  {i \in Tasks(w) : OutOf(w, i) = f} \cup (IF f \in w.copy_in THEN {-1} ELSE {})

\* The pairs of tasks, earlier first, that declare the same output.
DupPairs(w) ==
  {p \in Tasks(w) \X Tasks(w) : p[1] < p[2] /\ OutOf(w, p[1]) = OutOf(w, p[2])}

\* The tasks whose output is a global copy_in name or the output of an
\* earlier task.
OutputFaults(w) ==
  {j \in Tasks(w) :
     OutOf(w, j) \in w.copy_in \/ \E i \in Tasks(w) : <<i, j>> \in DupPairs(w)}

\* The declared inputs of task i that no global copy_in and no task provides.
UnresolvedOf(w, i) ==
  {inf \in GetCopyIn(w.tasks[i]) :
     inf \notin w.copy_in /\ inf \notin TaskOutputs(w)}

InputFaults(w) == {i \in Tasks(w) : UnresolvedOf(w, i) # {}}

Parsed == phase # "start"

\* parse returned the error of this kind and variant.
IsErr(kind, variant) ==
  /\ Parsed
  /\ ~parsed.ok
  /\ parsed.error.kind = kind
  /\ parsed.error.variant = variant

C5_OutputIsCopyInRejected ==
  Parsed =>
    \A i \in Tasks(wf) :
      OutOf(wf, i) \in wf.copy_in =>
        /\ ~parsed.ok
        /\ parsed.error.kind = "DuplicateFile"
        /\ parsed.error.variant = "CopyIn" =>
             /\ parsed.error.index \in Tasks(wf)
             /\ parsed.error.name = OutOf(wf, parsed.error.index)
             /\ parsed.error.name \in wf.copy_in
        /\ i = Min(OutputFaults(wf)) =>
             parsed.error =
               [kind |-> "DuplicateFile", variant |-> "CopyIn", index |-> i,
                name |-> OutOf(wf, i)]

C5_Witness ==
  /\ IsErr("DuplicateFile", "CopyIn")
  /\ parsed.error.index = 1

\* C6: whenever some task declares an input that is neither a global copy_in
\* name nor the output of any task, parse rejects the workflow, and, unless
\* an output clash was found first, it does so with InvalidFile::Target
\* carrying the first such task and one of its unresolved inputs; an input
\* that is provided is never reported.
C6_UnresolvedInputRejected ==
  Parsed =>
    /\ InputFaults(wf) # {} => ~parsed.ok
    /\ (InputFaults(wf) # {} /\ OutputFaults(wf) = {}) =>
         /\ IsErr("InvalidFile", "Target")
         /\ parsed.error.index = Min(InputFaults(wf))
    /\ IsErr("InvalidFile", "Target") =>
         /\ parsed.error.index \in Tasks(wf)
         /\ parsed.error.name \in UnresolvedOf(wf, parsed.error.index)

C6_Witness ==
  /\ IsErr("InvalidFile", "Target")
  /\ parsed.error.index = 1
  /\ GetCopyIn(wf.tasks[0]) \subseteq TaskOutputs(wf)

\* The output and input checks of parse find nothing.
TasksWellFormed(w) == OutputFaults(w) = {} /\ InputFaults(w) = {}

\* C7, as stated: a copy_out name is rejected exactly when it has no
\* producer, a producer being the global copy_in or a task.
C7_CopyOutRejectedIffNoProducer ==
  Parsed =>
    /\ IsErr("InvalidFile", "Global") =>
         /\ parsed.error.name \in wf.copy_out
         /\ Producers(wf, parsed.error.name) = {}
    /\ (TasksWellFormed(wf) /\ \E f \in wf.copy_out : Producers(wf, f) = {}) =>
         IsErr("InvalidFile", "Global")
    /\ (TasksWellFormed(wf) /\ \A f \in wf.copy_out : Producers(wf, f) # {}) =>
         parsed.ok

\* C7, amended: a copy_out name is rejected exactly when no task declares
\* it as its output; the global copy_in does not count as a producer.
C7_CopyOutRejectedIffNoTask ==
  Parsed =>
    /\ IsErr("InvalidFile", "Global") =>
         /\ parsed.error.name \in wf.copy_out
         /\ parsed.error.name \notin TaskOutputs(wf)
    /\ (TasksWellFormed(wf) /\ \E f \in wf.copy_out : f \notin TaskOutputs(wf)) =>
         IsErr("InvalidFile", "Global")
    /\ (TasksWellFormed(wf) /\ wf.copy_out \subseteq TaskOutputs(wf)) =>
         parsed.ok

C7_Witness ==
  /\ IsErr("InvalidFile", "Global")
  /\ parsed.error.name \in wf.copy_in
  /\ NumTasks(wf) > 0

Returned == phase = "returned"

\* C1: exec never gets stuck: as long as it has neither returned nor
\* panicked some step of it can be taken, so no task waits for ever on the
\* channel of an input file.
C1_ExecNeverStuck == phase \in {"returned", "panicked"} \/ ENABLED Next

\* The file ids exec hands to its caller under the copy_out names.
CopyOutIds ==
  IF result.ok
  THEN {result.files[f] : f \in (DOMAIN result.files) \cap wf.copy_out}
  ELSE {}

\* C2: once exec has returned, with Ok or with an error, every file id the
\* sandbox created during the call is returned under a copy_out name or has
\* had a file_delete issued.
C2_NoHandleLeak ==
  (Returned /\ Created # {}) =>
    \A id \in Created : id \in deleted \/ id \in CopyOutIds

\* The tasks that await file f.
Consumers(w, f) == {j \in Tasks(w) : f \in Range(Awaits(w.tasks[j]))}

\* C3: when a task fails, exec has returned the Execute error with the index
\* of that task, no other task has failed, and no task that awaits the
\* output of the failed task has started its primitive; an Execute error
\* always carries the index of a task that failed.
C3_FirstErrorWins ==
  /\ \A i \in Tasks(wf) :
       pc[i] = "failed" =>
         /\ Returned
         /\ result = [ok |-> FALSE, error |-> [kind |-> "Execute", index |-> i]]
         /\ \A j \in Tasks(wf) \ {i} : pc[j] # "failed"
         /\ channel[OutOf(wf, i)] = 0
         /\ Consumers(wf, OutOf(wf, i)) \cap started = {}
  /\ (Returned /\ ~result.ok /\ result.error.kind = "Execute") =>
       /\ result.error.index \in Tasks(wf)
       /\ pc[result.error.index] = "failed"

C3_Witness ==
  \E i, j \in Tasks(wf) :
    /\ i # j
    /\ pc[i] = "failed"
    /\ i \in started
    /\ j \in Consumers(wf, OutOf(wf, i))
    /\ pc[j] = "cancelled"
    /\ i = 1

Terminals == {k \in DOMAIN events : events[k].type \in {"Err", "Finished"}}

\* What holds of the status stream in every state: at most one terminal
\* event, which is the last event, the stream closed exactly when it holds
\* one; once exec has returned it holds one, Finished for Ok and Err
\* otherwise; no task has two CompleteOne events; a workflow that parse
\* rejects yields the Err of the parse error as its only event.
StreamWellFormed ==
  /\ Cardinality(Terminals) <= 1
  /\ \A k \in Terminals : k = Len(events)
  /\ closed <=> Terminals # {}
  /\ Returned =>
       /\ Terminals # {}
       /\ events[Len(events)].type = (IF result.ok THEN "Finished" ELSE "Err")
  /\ \A k, l \in DOMAIN events :
       (/\ events[k].type = "CompleteOne"
        /\ events[l].type = "CompleteOne"
        /\ events[k].index = events[l].index) => k = l
  /\ (Parsed /\ ~parsed.ok) =>
       events =
         <<[type |-> "Err",
            error |-> [kind |-> "Parse", source |-> parsed.error]]>>

\* File f has been published: its channel holds a file id, sent by the upload
\* loop for a global copy_in file or by the task that produces it, which
\* returned Ok.
Published(f) ==
  /\ channel[f] # 0
  /\ f \in wf.copy_in \/ \E j \in Tasks(wf) : OutOf(wf, j) = f /\ pc[j] = "done"

\* Every task whose primitive was requested has all its declared inputs
\* published.
StartedAfterInputs ==
  \A i \in started : \A f \in GetCopyIn(wf.tasks[i]) : Published(f)

\* A step that changes the channel of a file publishes it for the first
\* time, and is a round of the upload loop on a global copy_in file or the
\* successful return of the primitive of the task that produces the file.
PublishStep ==
  \A f \in Names :
    channel'[f] # channel[f] =>
      /\ channel[f] = 0
      /\ \/ phase = "upload" /\ f \in wf.copy_in
         \/ \E i \in started :
              /\ OutOf(wf, i) = f
              /\ pc[i] = "running"
              /\ pc'[i] = "done"

\* C30: within exec the primitive of a task is requested only once every
\* declared input of the task is published, by the upload of a global
\* copy_in file or by the successful return of the task that produces it; a
\* task publishes its output only when its primitive has returned with
\* success; and each file is published at most once.
C30_AwaitRunPublish == []StartedAfterInputs /\ [][PublishStep]_vars

C30_Witness ==
  \E i, j \in Tasks(wf) :
    /\ i # j
    /\ OutOf(wf, j) \in GetCopyIn(wf.tasks[i])
    /\ GetCopyIn(wf.tasks[i]) \cap wf.copy_in # {}
    /\ pc[j] = "done"
    /\ pc[i] = "done"
    /\ channel[OutOf(wf, i)] # 0

\* The judge_batch tasks whose run came back and was not Accepted.
FailedRuns ==
  {i \in started : wf.tasks[i].type = "judge_batch" /\ pc[i] = "failed"}

\* C32: when the run of a judge_batch task is not Accepted the task fails
\* with a runtime error: its copy_out file is not published and exec has
\* returned the Execute error, not Ok.
C32_JudgeBatchFailure ==
  \A i \in FailedRuns :
    /\ channel[wf.tasks[i].copy_out] = 0
    /\ Returned
    /\ ~result.ok
    /\ result.error.kind = "Execute"
    /\ result.error.index = i

C32_Witness ==
  \E i \in FailedRuns :
    /\ Returned
    /\ \E j \in Tasks(wf) : pc[j] = "done" /\ wf.tasks[i].exec = OutOf(wf, j)

\* The tasks that declare as an input the file whose id is id.
ConsumersOfId(id) ==
  {i \in Tasks(wf) : \E f \in GetCopyIn(wf.tasks[i]) : channel[f] = id}

\* C36: exec issues file_delete for a file id only when the primitive of
\* every task that declares the file as an input has completed.
C36_DeleteAfterConsumers ==
  \A id \in deleted : \A i \in ConsumersOfId(id) : pc[i] = "done"

\* An uploaded file and the output of a task, each the input of a task, are
\* deleted.
C36_Witness ==
  /\ \E f \in wf.copy_in : channel[f] \in deleted /\ ConsumersOfId(channel[f]) # {}
  /\ \E j \in Tasks(wf) :
       channel[OutOf(wf, j)] \in deleted /\ ConsumersOfId(channel[OutOf(wf, j)]) # {}

\* parse has rejected the workflow.
ParseRejected == parsed # NotParsed /\ ~parsed.ok

\* C40: when parse rejects the workflow exec has returned the parse error
\* and the sandbox was not called: no file was added, no primitive was
\* requested, no file was deleted.
C40_ParseErrorBeforeSandbox ==
  ParseRejected =>
    /\ Returned
    /\ result = ErrParse(parsed.error)
    /\ nextId = 1
    /\ \A f \in Names : channel[f] = 0
    /\ started = {}
    /\ \A i \in Tasks(wf) : pc[i] = "init"
    /\ deleted = {}

\* A rejected workflow that has a global copy_in file and a task.
C40_Witness ==
  /\ ParseRejected
  /\ Returned
  /\ wf.copy_in # {}
  /\ Tasks(wf) # {}

\* C10: every execution emits exactly one terminal event, the last event of
\* a well-formed stream: as long as the stream holds no terminal event the
\* execution can take a step, so that the terminal event is still to come.
C10_ExactlyOneTerminalEvent ==
  /\ StreamWellFormed
  /\ Terminals # {} \/ ENABLED Next

(***************************************************************************)
(* The problem judger: Problem::judge and Subtask::judge of problem.rs.    *)
(*                                                                         *)
(* Scores are f32 values of [0,1]; they are counted here in halves, so     *)
(* that One stands for 1.0 and 1 for 0.5.                                  *)
(***************************************************************************)
MaxSubtasks == 2

MaxTests == 2

MaxTotalTests == 3

\* 1f32, the score a subtask without dependences starts from.
One == 2

\* f32::INFINITY, the start of the fold over the records of a subtask.
Infinity == 3

\* The weights (Subtask::score) a subtask may carry.
Weights == {1, 2}

\* A subtask of a problem of n subtasks; tests is the length of its test
\* list.
Subtask(n) ==
  [score : Weights, dependences : SUBSET (0..(n - 1)), tests : 0..MaxTests]

Subtasks(p) == DOMAIN p.subtasks

TestsOf(p, i) == 1..p.subtasks[i].tests

\* Every test of the problem, as <<subtask, test>>.
AllTests(p) == {it \in Subtasks(p) \X (1..MaxTests) : it[2] \in TestsOf(p, it[1])}

\* The problems of n subtasks, of at most MaxTotalTests tests in all.
Problem(n) ==
  {p \in [subtasks : [0..(n - 1) -> Subtask(n)]] :
     Cardinality(AllTests(p)) <= MaxTotalTests}

\* The status of a command as the sandbox reports it.
StatusType ==
  {"Invalid", "Accepted", "MemoryLimitExceeded", "TimeLimitExceeded",
   "OutputLimitExceeded", "FileError", "NonZeroExitStatus", "Signalled",
   "DangerousSyscall", "InternalError"}

\* From<proto::StatusType> for ExecuteStatus.
ExecuteStatusFrom(s) ==
  CASE s = "Invalid" -> "SystemError"
    [] s = "Accepted" -> "Accepted"
    [] s = "MemoryLimitExceeded" -> "MemoryLimitExceeded"
    [] s = "TimeLimitExceeded" -> "TimeLimitExceeded"
    [] s = "OutputLimitExceeded" -> "OutputLimitExceeded"
    [] s = "FileError" -> "FileError"
    [] s = "NonZeroExitStatus" -> "RuntimeError"
    [] s = "Signalled" -> "RuntimeError"
    [] s = "DangerousSyscall" -> "RuntimeError"
    [] s = "InternalError" -> "SystemError"

\* From<ExecuteStatus> for RecordStatus.
RecordStatusFromExecute(s) == s

\* The status of a parsed checker output.
CheckerStatus ==
  {"Accepted", "WrongAnswer", "PartiallyCorrect", "PresentationError",
   "SystemError"}

\* From<checker::Status> for RecordStatus.
RecordStatusFromChecker(s) == s

\* checker::Output: status, score and message of a checker run.
Output == [status : CheckerStatus, score : 0..One, message : {"checker output"}]

None == [some |-> FALSE]

Some(x) == [some |-> TRUE, value |-> x]

\* RECORD_SKIPPED.
RECORD_SKIPPED == [status |-> "Skipped", score |-> 0, message |-> ""]

\* Record::new(result, checker_output), result given by its ExecuteStatus.
RecordNew(status, checker_output) ==
  IF ~checker_output.some
  THEN IF status # "Accepted"
       THEN [status |-> "SystemError", score |-> 0,
             message |-> "error: no checker"]
       ELSE [status |-> RecordStatusFromExecute(status), score |-> 0,
             message |-> ""]
  ELSE [status |-> RecordStatusFromChecker(checker_output.value.status),
        score |-> checker_output.value.score,
        message |-> checker_output.value.message]

\* The record of a test whose checker run failed: Record::new without a
\* checker output, then the message is replaced by the error text.
RecordCheckerFailed(status) ==
  [RecordNew(status, None) EXCEPT !.message = "error: checker judgement failed"]

Min2(a, b) == IF a <= b THEN a ELSE b

\* Each value is read as 0, the initial value of watch::channel(0.).
FoldMinInitial(init, S) == IF S = {} THEN init ELSE 0

\* The minimum a fold with f32::min reaches from init over the values of S.
FoldMin(init, S) == CHOOSE x \in S \cup {init} : \A y \in S \cup {init} : x <= y

\* A fold that keeps the largest value.
SubtaskScoreMax(recs) ==
  CHOOSE x \in {recs[t].score : t \in DOMAIN recs} \cup {0} :
    \A y \in {recs[t].score : t \in DOMAIN recs} \cup {0} : x >= y

\* The score Subtask::judge returns: the fold of min over the record scores,
\* starting from infinity.
SubtaskScore(recs) == FoldMin(Infinity, {recs[t].score : t \in DOMAIN recs})

\* The score is published as the tests gave it, whatever the dependences.
ClampScoreDropped(score, cur_score) == cur_score

\* score = score.min(cur_score): the score of the tests, clamped by the
\* score of the dependences.
ClampScore(score, cur_score) == Min2(score, cur_score)

RECURSIVE SumUnweighted(_, _, _)
\* The sum of the published scores, the weights left out.
SumUnweighted(p, l, n) ==
  IF n = 0 THEN 0 ELSE SumUnweighted(p, l, n - 1) + l[n - 1].value

RECURSIVE SumScore(_, _, _)
\* sum_score over the first n subtasks: subtask.score times the value of the
\* subtask's score channel.
SumScore(p, l, n) ==
  IF n = 0
  THEN 0
  ELSE SumScore(p, l, n - 1) + p.subtasks[n - 1].score * l[n - 1].value

\* What the sandbox answers to the run of a user solution: an error of the
\* transport, or a result with its status and, possibly, a stdout file.
SandboxError == [error |-> TRUE, status |-> "Invalid", stdout |-> FALSE]

Response ==
  {r \in [error : {FALSE}, status : StatusType, stdout : BOOLEAN] :
     r.status = "Accepted" => r.stdout}
    \cup {SandboxError}

\* judge_batch returns Some(stdout) when the status is Accepted, else None.
OufSome(resp) == resp.status = "Accepted"

\* The handle of the stdout file is dropped, so that its delete is issued,
\* when the sandbox produced the file and judge_batch does not return it.
OufReleased(resp) == resp.stdout /\ ~OufSome(resp)

\* What judge_batch returns for a response of the sandbox.
JudgeBatch(resp) ==
  [status |-> ExecuteStatusFrom(resp.status), ouf |-> OufSome(resp)]

\* What judge_batch of judge/batch.rs returns after an error of the
\* transport.
JudgeBatchSandboxError == [status |-> "SystemError", ouf |-> FALSE]

\* What checker::check returns: the parsed output, or an error when the
\* checker run was abnormal or the transport failed.
CheckResult ==
  [ok : {TRUE}, output : Output]
    \cup {[ok |-> FALSE, error |-> "Execute"], [ok |-> FALSE, error |-> "Sandbox"]}

\* The answers of the sandbox that a whole judging is explored with.
SomeResponse ==
  {r \in Response : r.error \/ (r.stdout /\ r.status \in {"Accepted", "TimeLimitExceeded"})}

SomeCheckResult ==
  {[ok |-> TRUE, output |-> o] :
     o \in {x \in Output :
              \/ x.status = "Accepted" /\ x.score = One
              \/ x.status = "PartiallyCorrect" /\ x.score = 1
              \/ x.status = "WrongAnswer" /\ x.score = 0}}
    \cup {[ok |-> FALSE, error |-> "Sandbox"]}

\* The events of the status stream of Problem::judge.
StatusCompileErr(message) == [type |-> "CompileErr", message |-> message]

StatusCompleteOne(subtask_id, rec) ==
  [type |-> "CompleteOne", subtask_id |-> subtask_id, record |-> rec]

StatusFinished(score, results) ==
  [type |-> "Finished", score |-> score, results |-> results]

\* The outcomes of the language lookup and the compilation of a source.
CompileOutcome == {"Ok", "InvalidLang", "CompileError"}

\* The task goes on after a source of an unknown language.
TerminatesOnCompileError(outcome) == outcome = "CompileError"

\* Problem::judge returns after the CompileErr event.
Terminates(outcome) == outcome # "Ok"

\* The workflow engine is not running.
WorkflowIdle ==
  /\ wf = [copy_in |-> {}, tasks |-> EmptyMap, copy_out |-> {}]
  /\ phase = "start"
  /\ parsed = NotParsed
  /\ channel = [f \in Names |-> 0]
  /\ pc = EmptyMap
  /\ pos = EmptyMap
  /\ nextId = 1
  /\ deleted = {}
  /\ toClean = {}
  /\ res = EmptyMap
  /\ result = NoResult
  /\ started = {}
  /\ events = <<>>
  /\ closed = FALSE

\* The state of the coroutines, channels and records before anything ran:
\* every score channel is created with the value 0.
NothingRan(p) ==
  /\ sub = [i \in Subtasks(p) |-> [pc |-> "created", score |-> One, cur_score |-> -1]]
  /\ latch = [i \in Subtasks(p) |-> [sent |-> FALSE, value |-> 0]]
  /\ response = [it \in AllTests(p) |-> None]
  /\ run = [it \in AllTests(p) |-> None]
  /\ checked = [it \in AllTests(p) |-> None]
  /\ record = [it \in AllTests(p) |-> None]
  /\ ret = [i \in Subtasks(p) |-> None]
  /\ stream = <<>>
  /\ ops = {}
  /\ released = {}

JudgeInit ==
  /\ WorkflowIdle
  /\ XIdle
  /\ \E n \in 0..MaxSubtasks : problem \in Problem(n)
  /\ jphase = "setup"
  /\ NothingRan(problem)

\* One compilation of the setup: the language lookup, then compile.  A
\* failure is sent as CompileErr and the task returns.
Compile(from, to) ==
  /\ jphase = from
  /\ \E outcome \in CompileOutcome :
       /\ stream' = IF outcome = "Ok"
                    THEN stream
                    ELSE Append(stream, StatusCompileErr(outcome))
       /\ jphase' = IF Terminates(outcome) THEN "returned" ELSE to
  /\ UNCHANGED <<problem, sub, latch, response, run, checked, record, ret, ops, released>>
  /\ UNCHANGED <<vars, xvars>>

\* The user solution is compiled.
CompileSolution == Compile("setup", "sol_compiled")

\* The checker is compiled; then the score channels and the coroutines of
\* the subtasks are created.
CompileChecker == Compile("sol_compiled", "judging")

\* Subtask::judge is running, within Problem::judge or on its own.
Judging == jphase \in {"judging", "subtask"}

\* The uploads Subtask::judge starts with: the input and the answer of each
\* test.
Uploads(p, i) ==
  {<<kind, i, t>> : kind \in {"upload input", "upload answer"}, t \in TestsOf(p, i)}

\* The coroutine of subtask i has seen every score channel of its
\* dependences change.  With a score of 0 it sends 0 and returns the skipped
\* records; otherwise Subtask::judge is called and uploads the test files.
SubtaskStart(i) ==
  /\ jphase = "judging"
  /\ sub[i].pc = "created"
  /\ \A d \in problem.subtasks[i].dependences : latch[d].sent
  /\ LET score ==
           FoldMin(One, {latch[d].value : d \in problem.subtasks[i].dependences})
     IN IF score = 0
        THEN /\ latch' = [latch EXCEPT ![i] = [sent |-> TRUE, value |-> 0]]
             /\ ret' = [ret EXCEPT
                          ![i] = Some([t \in TestsOf(problem, i) |-> RECORD_SKIPPED])]
             /\ sub' = [sub EXCEPT ![i].pc = "returned", ![i].score = 0]
             /\ UNCHANGED ops
        ELSE /\ sub' = [sub EXCEPT ![i].pc = "judging", ![i].score = score]
             /\ ops' = ops \cup Uploads(problem, i)
             /\ UNCHANGED <<latch, ret>>
  /\ UNCHANGED <<problem, jphase, response, run, checked, record, stream, released>>
  /\ UNCHANGED <<vars, xvars>>

\* Subtask::judge is called on its own and uploads the test files.
SubtaskJudge(i) ==
  /\ jphase = "subtask"
  /\ sub[i].pc = "created"
  /\ sub' = [sub EXCEPT ![i].pc = "judging"]
  /\ ops' = ops \cup Uploads(problem, i)
  /\ UNCHANGED <<problem, jphase, latch, response, run, checked, record, ret, stream, released>>
  /\ UNCHANGED <<vars, xvars>>

\* The first coroutine of test t of subtask i: judge_batch runs the user
\* solution and its result and output file are sent to the second
\* coroutine.  After an error of the transport, Request::exec panics
\* (judge.rs) or a SystemError result is returned (judge/batch.rs).
RunUser(i, t, responses) ==
  /\ Judging
  /\ sub[i].pc = "judging"
  /\ ~run[<<i, t>>].some
  /\ ops' = ops \cup {<<"run", i, t>>}
  /\ \E resp \in responses :
       /\ response' = [response EXCEPT ![<<i, t>>] = Some(resp)]
       /\ IF resp.error
          THEN \/ /\ jphase' = "panicked"
                  /\ UNCHANGED <<run, released>>
               \/ /\ run' = [run EXCEPT ![<<i, t>>] = Some(JudgeBatchSandboxError)]
                  /\ UNCHANGED <<jphase, released>>
          ELSE /\ run' = [run EXCEPT ![<<i, t>>] = Some(JudgeBatch(resp))]
               /\ released' = IF OufReleased(resp)
                              THEN released \cup {<<i, t>>}
                              ELSE released
               /\ UNCHANGED jphase
  /\ UNCHANGED <<problem, sub, latch, checked, record, ret, stream>>
  /\ UNCHANGED <<vars, xvars>>

\* The second coroutine of test t of subtask i: without an output file the
\* record is made from the result alone; otherwise the checker runs and the
\* record is made from its output or, when it failed, from the result and
\* the error text.  The record is sent as CompleteOne.
CheckTest(i, t, results) ==
  /\ Judging
  /\ run[<<i, t>>].some
  /\ ~record[<<i, t>>].some
  /\ LET user_res == run[<<i, t>>].value IN
       IF ~user_res.ouf
       THEN /\ record' = [record EXCEPT ![<<i, t>>] = Some(RecordNew(user_res.status, None))]
            /\ stream' = Append(stream, StatusCompleteOne(i, RecordNew(user_res.status, None)))
            /\ UNCHANGED <<ops, checked>>
       ELSE /\ ops' = ops \cup {<<"check", i, t>>}
            /\ \E checker_res \in results :
                 LET rec == IF checker_res.ok
                            THEN RecordNew(user_res.status, Some(checker_res.output))
                            ELSE RecordCheckerFailed(user_res.status)
                 IN /\ checked' = [checked EXCEPT ![<<i, t>>] = Some(checker_res)]
                    /\ record' = [record EXCEPT ![<<i, t>>] = Some(rec)]
                    /\ stream' = Append(stream, StatusCompleteOne(i, rec))
  /\ UNCHANGED <<problem, jphase, sub, latch, response, run, ret, released>>
  /\ UNCHANGED <<vars, xvars>>

\* The records of subtask i in the order in which its tests were over.
RecordsByCompletion(i) ==
  LET ks == {k \in DOMAIN stream :
               stream[k].type = "CompleteOne" /\ stream[k].subtask_id = i}
  IN [t \in TestsOf(problem, i) |->
        stream[CHOOSE k \in ks : Cardinality({j \in ks : j <= k}) = t].record]

\* The records of subtask i in the order of its tests.
Records(i) == [t \in TestsOf(problem, i) |-> record[<<i, t>>].value]

\* Every coroutine of subtask i is over.
AllRecorded(i) ==
  /\ sub[i].pc = "judging"
  /\ \A t \in TestsOf(problem, i) : record[<<i, t>>].some

\* Subtask::judge, called on its own, returns the score and the records.
SubtaskReturn(i) ==
  /\ jphase = "subtask"
  /\ AllRecorded(i)
  /\ sub' = [sub EXCEPT ![i].pc = "returned",
                        ![i].cur_score = SubtaskScore(Records(i))]
  /\ ret' = [ret EXCEPT ![i] = Some(Records(i))]
  /\ UNCHANGED <<problem, jphase, latch, response, run, checked, record, stream, ops, released>>
  /\ UNCHANGED <<vars, xvars>>

\* Subtask::judge returns to the coroutine of subtask i, which clamps the
\* score, sends it on the score channel and returns the records.
SubtaskFinish(i) ==
  /\ jphase = "judging"
  /\ AllRecorded(i)
  /\ LET cur_score == SubtaskScore(Records(i))
         score == ClampScore(sub[i].score, cur_score)
     IN /\ sub' = [sub EXCEPT ![i].pc = "returned", ![i].score = score,
                              ![i].cur_score = cur_score]
        /\ latch' = [latch EXCEPT ![i] = [sent |-> TRUE, value |-> score]]
  /\ ret' = [ret EXCEPT ![i] = Some(Records(i))]
  /\ UNCHANGED <<problem, jphase, response, run, checked, record, stream, ops, released>>
  /\ UNCHANGED <<vars, xvars>>

\* Every coroutine returned: the scores are summed and Finished is sent.
Finish ==
  /\ jphase = "judging"
  /\ \A i \in Subtasks(problem) : ret[i].some
  /\ stream' =
       Append(stream,
              StatusFinished(SumScore(problem, latch, Cardinality(Subtasks(problem))),
                             [i \in Subtasks(problem) |-> ret[i].value]))
  /\ jphase' = "finished"
  /\ UNCHANGED <<problem, sub, latch, response, run, checked, record, ret, ops, released>>
  /\ UNCHANGED <<vars, xvars>>

JudgeNext ==
  \/ CompileSolution
  \/ CompileChecker
  \/ \E i \in Subtasks(problem) : SubtaskStart(i)
  \/ \E it \in AllTests(problem) : RunUser(it[1], it[2], SomeResponse)
  \/ \E it \in AllTests(problem) : CheckTest(it[1], it[2], SomeCheckResult)
  \/ \E i \in Subtasks(problem) : SubtaskFinish(i)
  \/ Finish

JudgeSpec == JudgeInit /\ [][JudgeNext]_<<vars, jvars, xvars>>

\* The spawned task of Problem::judge is polled as long as one of its
\* futures can go on, and the sandbox answers every request.
JudgeFairSpec == JudgeSpec /\ WF_<<vars, jvars, xvars>>(JudgeNext)

\* Subtask::judge is called on the only subtask of a problem.
SubtaskInit ==
  /\ WorkflowIdle
  /\ XIdle
  /\ problem \in Problem(1)
  /\ jphase = "subtask"
  /\ NothingRan(problem)

SubtaskNext ==
  \/ SubtaskJudge(0)
  \/ \E t \in TestsOf(problem, 0) : RunUser(0, t, Response)
  \/ \E t \in TestsOf(problem, 0) : CheckTest(0, t, CheckResult)
  \/ SubtaskReturn(0)

SubtaskSpec == SubtaskInit /\ [][SubtaskNext]_<<vars, jvars, xvars>>

(***************************************************************************)
(* Properties of Problem::judge.                                           *)
(***************************************************************************)
Deps(i) == problem.subtasks[i].dependences

\* The subtasks subtask i depends on, directly or through other subtasks.
DepClosure(i) ==
  LET Step(S) == S \cup UNION {Deps(d) : d \in S}
      RECURSIVE Grow(_, _)
      Grow(S, k) == IF k = 0 THEN S ELSE Grow(Step(S), k - 1)
  IN Grow(Deps(i), Cardinality(Subtasks(problem)))

\* The coroutine of subtask i has seen the scores of its dependences.
Started(i) == sub[i].pc # "created"

\* The sandbox operations requested for the tests of subtask i.
OpsOf(i) == {op \in ops : op[2] = i}

\* The places of the CompleteOne events of subtask i in the stream.
CompleteOnes(i) ==
  {k \in DOMAIN stream :
     stream[k].type = "CompleteOne" /\ stream[k].subtask_id = i}

\* The subtask was skipped: it published 0, its result is one Skipped record
\* per test, and nothing was asked of the sandbox for its tests.
SkippedSilently(i) ==
  /\ latch[i] = [sent |-> TRUE, value |-> 0]
  /\ ret[i].some
  /\ DOMAIN ret[i].value = TestsOf(problem, i)
  /\ \A t \in TestsOf(problem, i) :
       ret[i].value[t] = [status |-> "Skipped", score |-> 0, message |-> ""]
  /\ OpsOf(i) = {}

\* What holds of a subtask some dependence of which, direct or not,
\* published 0: it is skipped, and none of its tests has a CompleteOne event.
SkipRuleWithoutEvents ==
  \A i \in Subtasks(problem) :
    (Started(i) /\ \E d \in DepClosure(i) : latch[d] = [sent |-> TRUE, value |-> 0]) =>
      SkippedSilently(i) /\ CompleteOnes(i) = {}

\* C11: when the minimum of the published scores of the dependences of a
\* subtask is 0, which is so as soon as a subtask of its dependency closure
\* published 0, the subtask publishes the score 0, its result is one Skipped
\* record per test, no upload, run or check is requested for its tests, and,
\* once the judging has finished, the stream holds one Skipped record per
\* test of the subtask.
C11_SkipRule ==
  \A i \in Subtasks(problem) :
    (Started(i) /\ \E d \in DepClosure(i) : latch[d] = [sent |-> TRUE, value |-> 0]) =>
      /\ SkippedSilently(i)
      /\ jphase = "finished" =>
           /\ Cardinality(CompleteOnes(i)) = problem.subtasks[i].tests
           /\ \A k \in CompleteOnes(i) : stream[k].record.status = "Skipped"

\* C12: once Finished is sent, the score each subtask published is at most
\* the score each of its dependences published.
C12_DependencyMonotone ==
  jphase = "finished" =>
    \A i \in Subtasks(problem) :
      /\ latch[i].sent
      /\ \A d \in Deps(i) : latch[d].sent /\ latch[i].value <= latch[d].value

C12_Witness ==
  /\ jphase = "finished"
  /\ \E i \in Subtasks(problem) : \E d \in Deps(i) :
       /\ latch[d].value = 1
       /\ problem.subtasks[i].tests > 0
       /\ \A t \in TestsOf(problem, i) :
            record[<<i, t>>].some /\ record[<<i, t>>].value.score = One
       /\ latch[i].value = 1

(***************************************************************************)
(* Properties of Subtask::judge.                                           *)
(***************************************************************************)
\* The scores of the records of the tests of subtask i.
RecordScores(i) == {record[<<i, t>>].value.score : t \in TestsOf(problem, i)}

C38_UnscaledScoreInRange ==
  sub[0].pc = "returned" => (0 <= sub[0].cur_score /\ sub[0].cur_score <= One)

\* The score returned for a subtask with a test is in the range [0,1], and
\* the score returned for a subtask with no tests is infinity.
ScoreInRangeWithTests ==
  sub[0].pc = "returned" =>
    IF problem.subtasks[0].tests >= 1
    THEN 0 <= sub[0].cur_score /\ sub[0].cur_score <= One
    ELSE sub[0].cur_score = Infinity

(***************************************************************************)
(* Properties of the events of Problem::judge.                             *)
(***************************************************************************)
\* The places of the events of a type in the stream.
EventsOf(type) == {k \in DOMAIN stream : stream[k].type = type}

RECURSIVE WeightedSum(_)
\* The sum, over the subtasks of S, of the weight of the subtask times the
\* score it published.
WeightedSum(S) ==
  IF S = {}
  THEN 0
  ELSE LET i == CHOOSE x \in S : TRUE
       IN problem.subtasks[i].score * latch[i].value + WeightedSum(S \ {i})

\* C14: the score of the Finished event is the sum over the subtasks of the
\* weight of the subtask times the score it published, and every subtask has
\* published its score by then.
C14_FinishedScoreIsWeightedSum ==
  \A k \in EventsOf("Finished") :
    /\ \A i \in Subtasks(problem) : latch[i].sent
    /\ stream[k].score = WeightedSum(Subtasks(problem))

C14_Witness ==
  /\ EventsOf("Finished") # {}
  /\ Cardinality(Subtasks(problem)) = 2
  /\ problem.subtasks[0].score = 1
  /\ problem.subtasks[1].score = 2
  /\ latch[0].value = One
  /\ latch[1].value = 1
  /\ stream[Len(stream)].score = 4

\* C15: once a CompileErr event is on the stream, for a source of an unknown
\* language or one that does not compile, it is the only event of the
\* stream, Problem::judge has returned and takes no further step, and no
\* upload, run or check of a test was requested; Problem::judge returns
\* early in no other way.
C15_CompileErrIsOnlyEvent ==
  /\ EventsOf("CompileErr") # {} =>
       /\ Len(stream) = 1
       /\ stream[1].message \in {"InvalidLang", "CompileError"}
       /\ jphase = "returned"
       /\ ~ENABLED JudgeNext
       /\ ops = {}
       /\ \A it \in AllTests(problem) :
            ~response[it].some /\ ~run[it].some /\ ~record[it].some
       /\ \A i \in Subtasks(problem) : sub[i].pc = "created" /\ ~latch[i].sent
  /\ jphase = "returned" => EventsOf("CompileErr") # {}

C15_Witness ==
  /\ jphase = "returned"
  /\ stream = <<[type |-> "CompileErr", message |-> "InvalidLang"]>>
  /\ AllTests(problem) # {}

\* No subtask depends on itself, directly or through other subtasks.
Acyclic == \A i \in Subtasks(problem) : i \notin DepClosure(i)

\* Subtask::judge has returned for subtask i.
Judged(i) == sub[i].pc = "returned" /\ sub[i].cur_score # -1

\* What holds of the events in every state: the stream holds at most one
\* Finished event, which is its last event and comes after every subtask has
\* returned; a subtask never has more CompleteOne events than tests, and a
\* judged subtask has exactly one for each of its tests.
JudgeStreamWellFormed ==
  /\ Cardinality(EventsOf("Finished")) <= 1
  /\ \A k \in EventsOf("Finished") :
       /\ k = Len(stream)
       /\ \A i \in Subtasks(problem) : sub[i].pc = "returned"
  /\ \A i \in Subtasks(problem) :
       /\ Cardinality(CompleteOnes(i)) <= problem.subtasks[i].tests
       /\ Judged(i) => Cardinality(CompleteOnes(i)) = problem.subtasks[i].tests

\* The solution and the checker have been compiled.
Compiled == jphase \notin {"setup", "sol_compiled", "returned"}

\* C16: after the compilation of a problem whose dependences are acyclic,
\* every judged subtask gets exactly one CompleteOne event per test and the
\* stream ends with exactly one Finished event: as long as the stream holds
\* no Finished event the judging can take a step.
C16_CompleteOnesThenFinished ==
  /\ JudgeStreamWellFormed
  /\ (Compiled /\ Acyclic) => (EventsOf("Finished") # {} \/ ENABLED JudgeNext)

\* C37: after the compilation of a problem whose dependences are acyclic,
\* in whatever order of the indices, Finished is sent in the end.
C37_EventuallyFinished ==
  (Compiled /\ Acyclic) ~> (EventsOf("Finished") # {})

\* After the compilation of a problem whose dependences are acyclic the
\* judging sends Finished or panics: no subtask waits for ever on the score
\* of a dependence.
FinishedUnlessPanicked ==
  (Compiled /\ Acyclic) ~> (EventsOf("Finished") # {} \/ jphase = "panicked")

\* A subtask of a problem with a cycle of dependences never goes on.
CyclicNeverFinished ==
  [](~Acyclic => jphase # "finished")

\* C34: the results of the Finished event hold, for each subtask, one list
\* with one record for each test of the subtask, and the record at place t
\* of the list of subtask i is the record of test t of subtask i, the
\* Skipped record when the subtask was skipped, in whatever order the
\* subtasks and the tests were over.
C34_ResultsByIndex ==
  \A k \in EventsOf("Finished") :
    /\ DOMAIN stream[k].results = Subtasks(problem)
    /\ \A i \in Subtasks(problem) :
         /\ DOMAIN stream[k].results[i] = TestsOf(problem, i)
         /\ \A t \in TestsOf(problem, i) :
              stream[k].results[i][t] =
                IF record[<<i, t>>].some
                THEN record[<<i, t>>].value
                ELSE [status |-> "Skipped", score |-> 0, message |-> ""]

\* Finished was sent after the second test of a subtask was over before the
\* first, with another record.
C34_Witness ==
  /\ EventsOf("Finished") # {}
  /\ \E i \in Subtasks(problem) : \E k1, k2 \in CompleteOnes(i) :
       /\ k1 < k2
       /\ problem.subtasks[i].tests = 2
       /\ record[<<i, 1>>].some
       /\ record[<<i, 2>>].some
       /\ stream[k1].record = record[<<i, 2>>].value
       /\ stream[k2].record = record[<<i, 1>>].value
       /\ record[<<i, 1>>].value # record[<<i, 2>>].value

\* Once Finished is sent every subtask has written its score latch.
LatchesWritten ==
  jphase = "finished" => \A i \in Subtasks(problem) : latch[i].sent

\* A step writes the latch of a subtask only when it was not written, and a
\* subtask that stops waiting has seen the latch of each of its dependences
\* written and goes on with the least of One and the values written.
LatchStep ==
  \A i \in Subtasks(problem) :
    /\ latch'[i] # latch[i] => (~latch[i].sent /\ latch'[i].sent)
    /\ (sub[i].pc = "created" /\ sub'[i].pc # "created" /\ jphase = "judging") =>
         LET seen == {One} \cup {latch[d].value : d \in problem.subtasks[i].dependences}
         IN /\ \A d \in problem.subtasks[i].dependences : latch[d].sent
            /\ sub'[i].score \in seen
            /\ \A v \in seen : sub'[i].score <= v
            /\ sub'[i].score = 0 => latch'[i] = [sent |-> TRUE, value |-> 0]

\* C35: in a judging that reaches Finished the score latch of each subtask
\* is written exactly once, with 0 when the subtask is skipped, and a
\* subtask reads from the latch of a dependence the value that was written,
\* never the initial value, also when the dependence was over before the
\* subtask started to wait.
C35_LatchWrittenOnce == []LatchesWritten /\ [][LatchStep]_jvars

\* A subtask went on with the score 1/2 its dependence had written before
\* the subtask was polled.
C35_Witness ==
  /\ jphase = "finished"
  /\ \E i \in Subtasks(problem) : \E d \in problem.subtasks[i].dependences :
       /\ latch[d] = [sent |-> TRUE, value |-> 1]
       /\ latch[i] = [sent |-> TRUE, value |-> 1]
       /\ problem.subtasks[i].tests > 0

(***************************************************************************)
(* Properties of the record of a test.                                     *)
(***************************************************************************)
\* The record status the status of a user run is to be mapped to.
MappedStatus(s) ==
  CASE s = "TimeLimitExceeded" -> "TimeLimitExceeded"
    [] s = "MemoryLimitExceeded" -> "MemoryLimitExceeded"
    [] s = "OutputLimitExceeded" -> "OutputLimitExceeded"
    [] s = "FileError" -> "FileError"
    [] s \in {"NonZeroExitStatus", "Signalled", "DangerousSyscall"} -> "RuntimeError"
    [] s \in {"InternalError", "Invalid"} -> "SystemError"
    [] s = "Accepted" -> "Accepted"

\* The sandbox answered the run of test it with a result.
Ran(it) == response[it].some /\ ~response[it].value.error

\* C17: the record of a test whose user run ended with a status other than
\* Accepted has the score 0 and the status the status of the run is mapped
\* to, and no check was requested for the test.
C17_NotAcceptedRecord ==
  \A it \in AllTests(problem) :
    (Ran(it) /\ response[it].value.status # "Accepted" /\ record[it].some) =>
      /\ record[it].value.score = 0
      /\ record[it].value.status = MappedStatus(response[it].value.status)
      /\ <<"check", it[1], it[2]>> \notin ops
      /\ ~checked[it].some

\* What holds of such a test instead: its record is a SystemError of score 0
\* with the message of Record::new, whatever the status of the run, and no
\* check was requested.
NotAcceptedIsSystemError ==
  \A it \in AllTests(problem) :
    (Ran(it) /\ response[it].value.status # "Accepted" /\ record[it].some) =>
      /\ record[it].value =
           [status |-> "SystemError", score |-> 0, message |-> "error: no checker"]
      /\ <<"check", it[1], it[2]>> \notin ops
      /\ ~checked[it].some

\* C18: the record of a test whose user run was Accepted carries the status
\* and the score of the checker when the checker run succeeded, and is a
\* SystemError of score 0 with the error text when the checker run failed.
C18_AcceptedRecord ==
  \A it \in AllTests(problem) :
    (Ran(it) /\ response[it].value.status = "Accepted" /\ record[it].some) =>
      /\ checked[it].some
      /\ IF checked[it].value.ok
         THEN /\ record[it].value.status = checked[it].value.output.status
              /\ record[it].value.score = checked[it].value.output.score
         ELSE record[it].value =
                [status |-> "SystemError", score |-> 0,
                 message |-> "error: checker judgement failed"]

\* What holds of such a test instead: after a failed checker run the record
\* keeps the status Accepted of the user run, with the score 0 and the error
\* text.
AcceptedRecordAsCoded ==
  \A it \in AllTests(problem) :
    (Ran(it) /\ response[it].value.status = "Accepted" /\ record[it].some) =>
      /\ checked[it].some
      /\ <<"check", it[1], it[2]>> \in ops
      /\ IF checked[it].value.ok
         THEN /\ record[it].value.status = checked[it].value.output.status
              /\ record[it].value.score = checked[it].value.output.score
              /\ record[it].value.message = checked[it].value.output.message
         ELSE record[it].value =
                [status |-> "Accepted", score |-> 0,
                 message |-> "error: checker judgement failed"]

(***************************************************************************)
(* Properties of the errors of the sandbox transport.                      *)
(***************************************************************************)
\* The transport failed during the user run or the checker run of test it.
TransportFailed(it) ==
  \/ response[it].some /\ response[it].value.error
  \/ checked[it].some /\ ~checked[it].value.ok /\ checked[it].value.error = "Sandbox"

\* C19: an error of the sandbox transport during a step of a test does not
\* abort the judging: the judging never stops before Finished, the record of
\* the test, once made, is a SystemError, and as long as the stream holds no
\* Finished event the judging of a problem of acyclic dependences can take a
\* step.
C19_TransportErrorNotTerminal ==
  /\ jphase # "panicked"
  /\ \A it \in AllTests(problem) :
       (TransportFailed(it) /\ record[it].some) =>
         record[it].value.status = "SystemError" /\ record[it].value.score = 0
  /\ (Compiled /\ Acyclic /\ \E it \in AllTests(problem) : TransportFailed(it)) =>
       (EventsOf("Finished") # {} \/ ENABLED JudgeNext)

(***************************************************************************)
(* Properties of judge_batch.                                              *)
(***************************************************************************)
\* What holds of judge_batch whenever it returns: the status it returns is
\* the status of the sandbox mapped to an ExecuteStatus, SystemError after an
\* error of the transport; it returns an output file exactly when that status
\* is Accepted; the delete of the stdout file is issued exactly when the
\* sandbox produced the file and the status is not Accepted.
JudgeBatchOutputs ==
  \A it \in AllTests(problem) :
    run[it].some =>
      /\ response[it].some
      /\ run[it].value.status =
           (IF response[it].value.error
            THEN "SystemError"
            ELSE MappedStatus(response[it].value.status))
      /\ run[it].value.ouf <=> run[it].value.status = "Accepted"
      /\ run[it].value.ouf => response[it].value.stdout
      /\ it \in released <=>
           (response[it].value.stdout /\ run[it].value.status # "Accepted")
      /\ it \in released => ~run[it].value.ouf /\ <<"check", it[1], it[2]>> \notin ops

\* C20: judge_batch returns a result for every answer of the sandbox, with
\* an output file exactly when the status is Accepted; the stdout file of a
\* run that is not Accepted is released and handed to no caller.
C20_JudgeBatchAlwaysReturns ==
  /\ JudgeBatchOutputs
  /\ \A it \in AllTests(problem) : response[it].some => run[it].some

(***************************************************************************)
(* The sandbox client: exec calls go through a semaphore of capacity       *)
(* max_job, file calls do not.                                             *)
(***************************************************************************)
MaxCallers == 3

MaxJob == 2

Callers == 1..MaxCallers

FileCalls == {"file_add", "file_get", "file_delete"}

\* The callers whose exec request is with the sandbox.
InFlight == {c \in Callers : call[c] = "exec"}

\* An exec call goes on whether a permit is left or not.
PermitAlways == TRUE

\* A permit of the semaphore is left.
PermitAvailable == Cardinality(InFlight) < max_job

ClientInit ==
  /\ WorkflowIdle
  /\ JudgeIdle
  /\ DeclareIdle
  /\ SocketIdle
  /\ TestIdle
  /\ HandlesIdle
  /\ ParserIdle
  /\ MessageIdle
  /\ max_job \in 1..MaxJob
  /\ call = [c \in Callers |-> "idle"]

\* Request::exec calls exec of the client, which asks the semaphore for a
\* permit.
ExecCall(c) ==
  /\ call[c] = "idle"
  /\ call' = [call EXCEPT ![c] = "acquire"]
  /\ UNCHANGED <<max_job, ClientFrame>>

\* The permit is granted and the request is sent to the sandbox.
ExecAcquire(c) ==
  /\ call[c] = "acquire"
  /\ PermitAvailable
  /\ call' = [call EXCEPT ![c] = "exec"]
  /\ UNCHANGED <<max_job, ClientFrame>>

\* The sandbox answers; the permit is given back as exec returns.
ExecReturn(c) ==
  /\ call[c] = "exec"
  /\ call' = [call EXCEPT ![c] = "idle"]
  /\ UNCHANGED <<max_job, ClientFrame>>

\* file_add, file_get or file_delete is called: the request is sent at once.
FileCall(c) ==
  /\ call[c] = "idle"
  /\ \E kind \in FileCalls : call' = [call EXCEPT ![c] = kind]
  /\ UNCHANGED <<max_job, ClientFrame>>

FileReturn(c) ==
  /\ call[c] \in FileCalls
  /\ call' = [call EXCEPT ![c] = "idle"]
  /\ UNCHANGED <<max_job, ClientFrame>>

ClientNext ==
  \/ \E c \in Callers : ExecCall(c)
  \/ \E c \in Callers : ExecAcquire(c)
  \/ \E c \in Callers : ExecReturn(c)
  \/ \E c \in Callers : FileCall(c)
  \/ \E c \in Callers : FileReturn(c)

ClientSpec == ClientInit /\ [][ClientNext]_<<vars, jvars, xvars>>

\* C21: the number of exec requests with the sandbox is at most max_job,
\* however many callers there are, and a file call is never held back: a
\* caller that is idle can start one and a file call under way can return,
\* whatever the state of the semaphore.
C21_ExecBoundedByMaxJob ==
  /\ Cardinality(InFlight) <= max_job
  /\ \A c \in Callers :
       /\ call[c] = "idle" => ENABLED FileCall(c)
       /\ call[c] \in FileCalls => ENABLED FileReturn(c)

C21_Witness ==
  /\ max_job = 1
  /\ \E c, d, e \in Callers :
       /\ call[c] = "exec"
       /\ call[d] = "acquire"
       /\ call[e] = "file_add"

(***************************************************************************)
(* The file handle of sandbox/file.rs: FileHandle wraps an                 *)
(* Arc<FileHandleInner>, and the drop of the inner value issues the delete *)
(* of the sandbox file.                                                    *)
(***************************************************************************)
MaxFiles == 2

MaxClones == 3

Files == 1..MaxFiles

\* The inner value is dropped with every handle.
InnerDroppedAlways(strong) == TRUE

\* Arc drops the inner value when the handle dropped is the last that holds
\* it.
InnerDropped(strong) == strong = 1

HandleInit ==
  /\ WorkflowIdle
  /\ JudgeIdle
  /\ DeclareIdle
  /\ SocketIdle
  /\ TestIdle
  /\ ClientIdle
  /\ ParserIdle
  /\ MessageIdle
  /\ handle = [f \in Files |-> [made |-> FALSE, strong |-> 0, clones |-> 0]]
  /\ issued = [f \in Files |-> 0]

\* FileHandle::upload or FileHandle::from_id: the first handle of the file.
HandleNew(f) ==
  /\ ~handle[f].made
  /\ handle' = [handle EXCEPT ![f] = [made |-> TRUE, strong |-> 1, clones |-> 0]]
  /\ UNCHANGED <<issued, HandleFrame>>

\* Clone of a handle that is held.
HandleClone(f) ==
  /\ handle[f].strong >= 1
  /\ handle[f].clones < MaxClones
  /\ handle' = [handle EXCEPT ![f].strong = @ + 1, ![f].clones = @ + 1]
  /\ UNCHANGED <<issued, HandleFrame>>

\* A handle is dropped; with the inner value, Drop spawns the file_delete.
HandleDrop(f) ==
  /\ handle[f].strong >= 1
  /\ handle' = [handle EXCEPT ![f].strong = @ - 1]
  /\ issued' = IF InnerDropped(handle[f].strong)
               THEN [issued EXCEPT ![f] = @ + 1]
               ELSE issued
  /\ UNCHANGED HandleFrame

HandleNext ==
  \/ \E f \in Files : HandleNew(f)
  \/ \E f \in Files : HandleClone(f)
  \/ \E f \in Files : HandleDrop(f)

HandleSpec == HandleInit /\ [][HandleNext]_<<vars, jvars, xvars>>

\* C22: for a sandbox file held through any number of cloned handles, no
\* delete is issued while a handle is held, and exactly one has been issued
\* once the last is dropped.
C22_DeleteOnceAtLastDrop ==
  \A f \in Files :
    /\ issued[f] <= 1
    /\ handle[f].strong > 0 => issued[f] = 0
    /\ (handle[f].made /\ handle[f].strong = 0) => issued[f] = 1
    /\ ~handle[f].made => issued[f] = 0

C22_Witness ==
  \E f, g \in Files :
    /\ handle[f] = [made |-> TRUE, strong |-> 0, clones |-> 2]
    /\ issued[f] = 1
    /\ handle[g].strong = 3
    /\ issued[g] = 0

(***************************************************************************)
(* The checker output parser: Output::parse of checker.rs.                 *)
(*                                                                         *)
(* A checker output is a string of one-byte characters.  An f32 is a       *)
(* number counted in hundredths, NaN or the positive infinity.             *)
(***************************************************************************)
\* 1.0, in hundredths.
ScoreOne == 100

Num(n) == [kind |-> "num", v |-> n]

NaN == [kind |-> "nan", v |-> 0]

PosInf == [kind |-> "inf", v |-> 0]

\* const LIMIT of limit_message.
LIMIT == 1024

\* The character classes of the patterns: \s, [ \t], [0-9] and \w.
SpaceChars == {" ", "\t", "\n", "\r"}

BlankChars == {" ", "\t"}

DigitChars == {"0", "1", "2", "3", "4", "5", "6", "7", "8", "9"}

WordChars ==
  LET letters == "abcdefghijklmnopqrstuvwxyzABCDEFGHIJKLMNOPQRSTUVWXYZ"
  IN DigitChars \cup {SubSeq(letters, i, i) : i \in 1..Len(letters)} \cup {"_"}

Take(s, n) == SubSeq(s, 1, n)

Drop(s, n) == SubSeq(s, n + 1, Len(s))

StartsWith(s, p) == Len(s) >= Len(p) /\ Take(s, Len(p)) = p

RECURSIVE SpanLen(_, _)
\* The length of the longest prefix of s made of characters of class: what a
\* greedy repetition of the class takes.
SpanLen(s, class) ==
  IF Len(s) > 0 /\ Head(s) \in class THEN 1 + SpanLen(Tail(s), class) ELSE 0

RECURSIVE TrimEnd(_)
TrimEnd(s) ==
  IF Len(s) > 0 /\ SubSeq(s, Len(s), Len(s)) \in SpaceChars
  THEN TrimEnd(Take(s, Len(s) - 1))
  ELSE s

\* What (.*?) captures between \s* and \s*\z.
Trim(s) == TrimEnd(Drop(s, SpanLen(s, SpaceChars)))

\* limit_message on a string of one-byte characters.
LimitText(s) == IF Len(s) <= LIMIT THEN s ELSE Take(s, LIMIT - 3) \o "..."

\* The prefix counts only as a whole word.
PrefixPatWord(s, prefix) ==
  IF /\ StartsWith(s, prefix)
     /\ (Len(s) = Len(prefix) \/ SubSeq(s, Len(prefix) + 1, Len(prefix) + 1) \in SpaceChars)
  THEN Some(Trim(Drop(s, Len(prefix))))
  ELSE None

\* AC_PAT, WA_PAT, FAIL_PAT and PE_PAT: (?s)\A<prefix>\s*(.*?)\s*\z.
PrefixPat(s, prefix) ==
  IF StartsWith(s, prefix) THEN Some(Trim(Drop(s, Len(prefix)))) ELSE None

\* The number may not be parenthesised.
PcPatNoParen(s) ==
  LET alts == {p \in {"partially correct ", "points "} : StartsWith(s, p)}
  IN IF alts = {}
     THEN None
     ELSE LET b == Drop(s, Len(CHOOSE p \in alts : TRUE))
              i == SpanLen(b, DigitChars)
              dot == IF StartsWith(Drop(b, i), ".") THEN 1 ELSE 0
              j == SpanLen(Drop(b, i + dot), DigitChars)
          IN Some([num |-> Take(b, i + dot + j), rest |-> Trim(Drop(b, i + dot + j))])

\* PC_PAT:
\* (?s)\A(?:partially correct|points) \(?([0-9]*\.?[0-9]*)\)?\s*(.*?)\s*\z.
PcPat(s) ==
  LET alts == {p \in {"partially correct ", "points "} : StartsWith(s, p)}
  IN IF alts = {}
     THEN None
     ELSE LET a == Drop(s, Len(CHOOSE p \in alts : TRUE))
              b == IF StartsWith(a, "(") THEN Drop(a, 1) ELSE a
              i == SpanLen(b, DigitChars)
              dot == IF StartsWith(Drop(b, i), ".") THEN 1 ELSE 0
              j == SpanLen(Drop(b, i + dot), DigitChars)
              e == Drop(b, i + dot + j)
              f == IF StartsWith(e, ")") THEN Drop(e, 1) ELSE e
          IN Some([num |-> Take(b, i + dot + j), rest |-> Trim(f)])

RECURSIVE DigitsValue(_)
\* The number a string of digits stands for.
DigitsValue(s) ==
  IF Len(s) = 0
  THEN 0
  ELSE 10 * DigitsValue(Take(s, Len(s) - 1))
         + (CHOOSE n \in 0..9 : SubSeq("0123456789", n + 1, n + 1) = SubSeq(s, Len(s), Len(s)))

\* str::parse::<f32> on the strings the patterns can capture from the
\* outputs explored: digits with at most one point and at most two digits
\* after it, the names of NaN and of the infinity, and words that are no
\* number.
ParseF32(s) ==
  IF s \in {"nan", "NaN"} THEN Some(NaN)
  ELSE IF s \in {"inf", "infinity"} THEN Some(PosInf)
  ELSE LET i == SpanLen(s, DigitChars)
           dot == IF StartsWith(Drop(s, i), ".") THEN 1 ELSE 0
           frac == Drop(s, i + dot)
       IN IF SpanLen(frac, DigitChars) = Len(frac) /\ i + Len(frac) > 0
          THEN Some(Num(ScoreOne * DigitsValue(Take(s, i))
                          + DigitsValue(Take(frac \o "00", 2))))
          ELSE None

\* f32::clamp(0., 1.): NaN stays NaN.
Clamp01(x) ==
  CASE x.kind = "nan" -> NaN
    [] x.kind = "inf" -> Num(ScoreOne)
    [] x.kind = "num" -> Num(IF x.v < 0 THEN 0 ELSE IF x.v > ScoreOne THEN ScoreOne ELSE x.v)

\* Status::from_str: the snake_case names of the variants of Status.
StatusNames ==
  [waiting |-> "Waiting", judging |-> "Judging", accepted |-> "Accepted",
   wrong_answer |-> "WrongAnswer", partially_correct |-> "PartiallyCorrect",
   time_limit_exceeded |-> "TimeLimitExceeded",
   memory_limit_exceeded |-> "MemoryLimitExceeded",
   output_limit_exceeded |-> "OutputLimitExceeded",
   runtime_error |-> "RuntimeError", compile_error |-> "CompileError",
   presentation_error |-> "PresentationError", system_error |-> "SystemError",
   canceled |-> "Canceled", skipped |-> "Skipped"]

StatusFromStr(name) ==
  IF name \in DOMAIN StatusNames THEN Some(StatusNames[name]) ELSE None

\* The verdict the output gets before the status and score lines are looked
\* at.
BaseVerdict(s) ==
  IF PrefixPat(s, "ok").some
  THEN [status |-> "Accepted", score |-> Num(ScoreOne),
        message |-> LimitText("ac " \o PrefixPat(s, "ok").value)]
  ELSE IF PrefixPat(s, "wrong answer").some
  THEN [status |-> "WrongAnswer", score |-> Num(0),
        message |-> LimitText("wa " \o PrefixPat(s, "wrong answer").value)]
  ELSE IF PrefixPat(s, "FAIL").some
  THEN [status |-> "SystemError", score |-> Num(0),
        message |-> LimitText("fail " \o PrefixPat(s, "FAIL").value)]
  ELSE IF PrefixPat(s, "wrong output format").some
  THEN [status |-> "PresentationError", score |-> Num(0),
        message |-> LimitText("pe " \o PrefixPat(s, "wrong output format").value)]
  ELSE IF PcPat(s).some /\ ParseF32(PcPat(s).value.num).some
  THEN LET score == ParseF32(PcPat(s).value.num).value
           rest == PcPat(s).value.rest
       IN IF score.kind = "inf" \/ (score.kind = "num" /\ score.v >= ScoreOne)
          THEN [status |-> "Accepted", score |-> Num(ScoreOne),
                message |-> LimitText("ac " \o rest)]
          ELSE IF score.kind = "num" /\ score.v <= 0
          THEN [status |-> "WrongAnswer", score |-> Num(0),
                message |-> LimitText("wa " \o rest)]
          ELSE [status |-> "PartiallyCorrect", score |-> score,
                message |-> LimitText("pc " \o rest)]
  ELSE [status |-> "SystemError", score |-> Num(0), message |-> LimitText(s)]

RECURSIVE LineLen(_)
LineLen(s) == IF Len(s) > 0 /\ Head(s) # "\n" THEN 1 + LineLen(Tail(s)) ELSE 0

RECURSIVE Lines(_)
\* The lines of s: the places where ^ and $ of a (?m) pattern match.
Lines(s) ==
  IF LineLen(s) = Len(s)
  THEN <<s>>
  ELSE <<Take(s, LineLen(s))>> \o Lines(Drop(s, LineLen(s) + 1))

\* CUSTOM_PAT on one line: (?m)^[ \t]*(status|score)\((\w+)\)[ \t]*(.*?)\s*$.
CustomPat(line) ==
  LET a == Drop(line, SpanLen(line, BlankChars))
      keys == {k \in {"status", "score"} : StartsWith(a, k \o "(")}
  IN IF keys = {}
     THEN None
     ELSE LET key == CHOOSE k \in keys : TRUE
              b == Drop(a, Len(key) + 1)
              n == SpanLen(b, WordChars)
          IN IF n > 0 /\ StartsWith(Drop(b, n), ")")
             THEN Some([key |-> key, arg |-> Take(b, n)])
             ELSE None

RECURSIVE ApplyCustom(_, _)
\* The loop over the matches of CUSTOM_PAT, in the order of the lines: a
\* status line with a known name sets the status, a score line with a number
\* sets the score, clamped.
ApplyCustom(verdict, lines) ==
  IF lines = <<>>
  THEN verdict
  ELSE LET cap == CustomPat(Head(lines))
           next ==
             IF ~cap.some
             THEN verdict
             ELSE IF cap.value.key = "status"
             THEN IF StatusFromStr(cap.value.arg).some
                  THEN [verdict EXCEPT !.status = StatusFromStr(cap.value.arg).value]
                  ELSE verdict
             ELSE IF ParseF32(cap.value.arg).some
                  THEN [verdict EXCEPT !.score = Clamp01(ParseF32(cap.value.arg).value)]
                  ELSE verdict
       IN ApplyCustom(next, Tail(lines))

\* Output::parse.
OutputParse(s) == ApplyCustom(BaseVerdict(s), Lines(s))

\* The text of an output made of a verdict word, a number, a comment and
\* lines.
TextOf(head, number, comment, lines) ==
  LET front == head \o number \o comment
  IN IF lines = "" THEN front
     ELSE IF front = "" THEN lines
     ELSE front \o "\n" \o lines

\* The outputs explored: a verdict word, a number, a comment and status or
\* score lines.
CheckerOutputs ==
  {[head |-> h, number |-> n, comment |-> c, lines |-> l, text |-> TextOf(h, n, c, l)] :
     h \in {"", "ok", "wrong answer", "FAIL", "wrong output format",
            "partially correct", "points", "okay", "Points"},
     n \in {"", " 0.5", " (0.5)", " 1", " 0", " 2", " .", " 0.12", "  0.5", " (1.5)"},
     c \in {"", " you win\n3 steps.", " \t \textra spaces\n\t\t"},
     l \in {"", "status(accepted)", "status(bogus)",
            "status(wrong_answer)\nstatus(accepted)",
            "status(accepted)\n\tstatus(bogus) x", "  status(skipped) note",
            "score(1)", "score(0.1)", "score(7)", "score(1)\nscore(0)", "score(nan)",
            "status(accepted)\nscore(0.1)", "status (accepted)"}}

ParserInit ==
  /\ WorkflowIdle
  /\ JudgeIdle
  /\ DeclareIdle
  /\ SocketIdle
  /\ TestIdle
  /\ ClientIdle
  /\ HandlesIdle
  /\ MessageIdle
  /\ output \in CheckerOutputs
  /\ parsed_out = None

\* Output::parse is called on the output of the checker.
ParseOutput ==
  /\ ~parsed_out.some
  /\ parsed_out' = Some(OutputParse(output.text))
  /\ UNCHANGED <<output, ParserFrame>>

ParserSpec == ParserInit /\ [][ParseOutput]_<<vars, jvars, xvars>>

(***************************************************************************)
(* Properties of Output::parse.                                            *)
(***************************************************************************)
\* The lines of the output hold no status line of a known name and no score
\* line.
NoOverride == output.lines \in {"", "status(bogus)", "status (accepted)"}

\* The verdict words that are not those of the partial-score rule, with the
\* status and the score each stands for.
WordVerdict ==
  [ok |-> <<"Accepted", 100>>, okay |-> <<"Accepted", 100>>] @@
  ("wrong answer" :> <<"WrongAnswer", 0>>) @@
  ("FAIL" :> <<"SystemError", 0>>) @@
  ("wrong output format" :> <<"PresentationError", 0>>) @@
  ("" :> <<"SystemError", 0>>) @@
  ("Points" :> <<"SystemError", 0>>)

\* The numbers that are a decimal, parenthesised or not, after one space, in
\* hundredths.
Decimal ==
  (" 0.5" :> 50) @@ (" (0.5)" :> 50) @@ (" 1" :> 100) @@ (" 0" :> 0) @@
  (" 2" :> 200) @@ (" 0.12" :> 12) @@ (" (1.5)" :> 150)

PartialWords == {"partially correct", "points"}

\* C23: without status and score lines the verdict is that of the first rule
\* that matches: the prefix ok gives (Accepted, 1), wrong answer gives
\* (WrongAnswer, 0), FAIL gives (SystemError, 0), wrong output format gives
\* (PresentationError, 0), then comes the partial-score rule, and every other
\* output gives (SystemError, 0).
C23_BaseVerdict ==
  (parsed_out.some /\ NoOverride) =>
    IF output.head \in DOMAIN WordVerdict
    THEN /\ parsed_out.value.status = WordVerdict[output.head][1]
         /\ parsed_out.value.score = [kind |-> "num", v |-> WordVerdict[output.head][2]]
    ELSE /\ output.head \in PartialWords
         /\ parsed_out.value.status \in
              {"Accepted", "WrongAnswer", "PartiallyCorrect", "SystemError"}
         /\ output.number \notin DOMAIN Decimal =>
              /\ parsed_out.value.status = "SystemError"
              /\ parsed_out.value.score = [kind |-> "num", v |-> 0]

C23_Witness ==
  /\ parsed_out.some
  /\ output.head = "okay"
  /\ output.number = " 0"
  /\ output.lines = ""
  /\ parsed_out.value.status = "Accepted"

LastStatus ==
  ("status(accepted)" :> "Accepted") @@
  ("status(wrong_answer)\nstatus(accepted)" :> "Accepted") @@
  ("status(accepted)\n\tstatus(bogus) x" :> "Accepted") @@
  ("  status(skipped) note" :> "Skipped") @@
  ("status(accepted)\nscore(0.1)" :> "Accepted")

\* The number of the last score line, clamped to [0,1], in hundredths, for
\* the lines that hold one.
LastScore ==
  ("score(1)" :> 100) @@ ("score(0.1)" :> 10) @@ ("score(7)" :> 100) @@
  ("score(1)\nscore(0)" :> 0) @@ ("status(accepted)\nscore(0.1)" :> 10)

\* C25: the status of an output with a status line of a known name is that
\* of the last such line, and the score of an output with a score line is
\* the number of the last such line, clamped to [0,1], whatever the verdict
\* of the prefix.
C25_OverridePrecedence ==
  parsed_out.some =>
    /\ output.lines \in DOMAIN LastStatus =>
         parsed_out.value.status = LastStatus[output.lines]
    /\ output.lines \in DOMAIN LastScore =>
         parsed_out.value.score = [kind |-> "num", v |-> LastScore[output.lines]]

\* What holds of the status and score lines instead: the last status line of
\* a known name gives the status and the last score line whose number has no
\* point gives the score; a score line whose number has a point is not seen.
OverrideWithoutPoint ==
  parsed_out.some =>
    /\ output.lines \in DOMAIN LastStatus =>
         parsed_out.value.status = LastStatus[output.lines]
    /\ output.lines \in {"score(1)", "score(7)"} =>
         parsed_out.value.score = [kind |-> "num", v |-> 100]
    /\ output.lines = "score(1)\nscore(0)" =>
         parsed_out.value.score = [kind |-> "num", v |-> 0]
    /\ (output.lines \in {"score(0.1)", "status(accepted)\nscore(0.1)"}
        /\ output.head \in DOMAIN WordVerdict) =>
         parsed_out.value.score = [kind |-> "num", v |-> WordVerdict[output.head][2]]

KnownStatus ==
  {"Waiting", "Judging", "Accepted", "WrongAnswer", "PartiallyCorrect",
   "TimeLimitExceeded", "MemoryLimitExceeded", "OutputLimitExceeded",
   "RuntimeError", "CompileError", "PresentationError", "SystemError",
   "Canceled", "Skipped"}

\* C26: the parser returns, for every output, a known status and a score
\* that is a number of [0,1].
C26_ParserTotal ==
  parsed_out.some =>
    /\ parsed_out.value.status \in KnownStatus
    /\ parsed_out.value.score.kind = "num"
    /\ parsed_out.value.score.v \in 0..100

\* What holds instead: the score is a number of [0,1] unless the last score
\* line names NaN.
ParserTotalButNaN ==
  parsed_out.some =>
    /\ parsed_out.value.status \in KnownStatus
    /\ IF output.lines = "score(nan)"
       THEN parsed_out.value.score.kind = "nan"
       ELSE parsed_out.value.score.kind = "num" /\ parsed_out.value.score.v \in 0..100

\* C27: the message of the parsed output of an output within the limit of
\* limit_message is the output itself, whichever rule gave the verdict.
C27_MessageIsRawOutput ==
  (parsed_out.some /\ Len(output.text) <= LIMIT) =>
    parsed_out.value.message = output.text

\* What holds instead: the message is the output itself only when no rule
\* of a prefix gave the verdict.
MessageIsRawWithoutRule ==
  (/\ parsed_out.some
   /\ output.head \in {"", "Points"} \/
        (output.head \in PartialWords /\ output.number \notin DOMAIN Decimal)) =>
    parsed_out.value.message = output.text

(***************************************************************************)
(* limit_message of result.rs on the bytes of a string.                    *)
(*                                                                         *)
(* A string is the sequence of the bytes of its UTF-8 encoding.            *)
(***************************************************************************)
\* The longest padding of a short message.
MaxShort == 2

\* How far below LIMIT the paddings of the long messages start.
MaxNear == 10

\* A continuation byte of a UTF-8 sequence: 10xxxxxx.
IsCont(b) == b \in 128..191

\* The length of the UTF-8 sequence a lead byte opens.
CharLen(b) ==
  IF b < 128 THEN 1 ELSE IF b < 224 THEN 2 ELSE IF b < 240 THEN 3 ELSE 4

\* String::from_utf8_lossy on a prefix of the bytes of a str: the bytes are
\* valid up to at most one sequence cut short at the end, which becomes one
\* U+FFFD (EF BF BD).
FromUtf8Lossy(bytes) ==
  LET leads == {i \in 1..Len(bytes) : ~IsCont(bytes[i])}
  IN IF leads = {}
     THEN bytes
     ELSE LET p == CHOOSE i \in leads : \A j \in leads : j <= i
          IN IF Len(bytes) - p + 1 < CharLen(bytes[p])
             THEN SubSeq(bytes, 1, p - 1) \o <<239, 191, 189>>
             ELSE bytes

\* No message is within the limit.
WithinLimitNever(bytes) == FALSE

\* s.as_bytes().len() <= LIMIT.
WithinLimit(bytes) == Len(bytes) <= LIMIT

\* limit_message: take(LIMIT - 3) takes at most that many bytes; "..." is
\* 2E 2E 2E.
LimitMessage(bytes) ==
  IF WithinLimit(bytes)
  THEN bytes
  ELSE LET n == IF Len(bytes) < LIMIT - 3 THEN Len(bytes) ELSE LIMIT - 3
       IN FromUtf8Lossy(SubSeq(bytes, 1, n)) \o <<46, 46, 46>>

\* The messages explored: a padding of the letter a, short or about as long
\* as the limit, then a tail of at most two characters among a, e with acute
\* accent, the euro sign and an emoji, of one, two, three and four bytes.
Messages ==
  LET chars == {<<97>>, <<195, 169>>, <<226, 130, 172>>, <<240, 159, 152, 128>>}
  IN {[i \in 1..n |-> 97] \o tail :
        n \in (0..MaxShort) \cup ((LIMIT - MaxNear)..(LIMIT + 1)),
        tail \in {<<>>} \cup chars \cup {c \o d : c, d \in chars}}

MessageInit ==
  /\ WorkflowIdle
  /\ JudgeIdle
  /\ DeclareIdle
  /\ SocketIdle
  /\ TestIdle
  /\ ClientIdle
  /\ HandlesIdle
  /\ ParserIdle
  /\ msg \in Messages
  /\ limited = None
  /\ relimited = None

\* limit_message is called on the message.
Limit ==
  /\ ~limited.some
  /\ limited' = Some(LimitMessage(msg))
  /\ UNCHANGED <<msg, relimited, MessageFrame>>

\* limit_message is called on what it returned.
Relimit ==
  /\ limited.some
  /\ ~relimited.some
  /\ relimited' = Some(LimitMessage(limited.value))
  /\ UNCHANGED <<msg, limited, MessageFrame>>

MessageNext ==
  \/ Limit
  \/ Relimit

MessageSpec == MessageInit /\ [][MessageNext]_<<vars, jvars, xvars>>

(***************************************************************************)
(* Properties of limit_message.                                            *)
(***************************************************************************)
\* The bytes are the UTF-8 encoding of a string: each lead byte is followed
\* by the continuation bytes of its sequence and each continuation byte
\* belongs to the sequence of a lead byte.
ValidUtf8(bytes) ==
  /\ \A i \in 1..Len(bytes) :
       ~IsCont(bytes[i]) =>
         /\ bytes[i] < 248
         /\ i + CharLen(bytes[i]) - 1 <= Len(bytes)
         /\ \A k \in 1..(CharLen(bytes[i]) - 1) : IsCont(bytes[i + k])
  /\ \A i \in 1..Len(bytes) :
       IsCont(bytes[i]) =>
         \E j \in 1..(i - 1) : ~IsCont(bytes[j]) /\ i < j + CharLen(bytes[j])

\* The cut of a message over the limit falls inside a character.
CutInsideChar == Len(msg) > LIMIT /\ IsCont(msg[LIMIT - 2])

\* C28: what limit_message returns has at most 1024 bytes and is valid
\* UTF-8, for every message, also when the cut falls inside a character of
\* several bytes.
C28_LimitedWithinLimit ==
  limited.some =>
    /\ Len(limited.value) <= LIMIT
    /\ ValidUtf8(limited.value)

\* What holds instead: the returned bytes are valid UTF-8, at most 1024 of
\* them unless the cut falls inside a character, and then at most 1026.
LimitedWithinLimitPlusTwo ==
  limited.some =>
    /\ ValidUtf8(limited.value)
    /\ Len(limited.value) <= (IF CutInsideChar THEN LIMIT + 2 ELSE LIMIT)
    /\ Len(msg) <= LIMIT => limited.value = msg

\* C29: limit_message applied to what limit_message returned returns it
\* unchanged.
C29_LimitIdempotent ==
  relimited.some => relimited.value = limited.value

C29_Witness ==
  /\ relimited.some
  /\ CutInsideChar
  /\ Len(limited.value) > LIMIT
  /\ relimited.value = limited.value

\* The commands explored carry every copy_in map from sandbox file names to
\* workflow file names.
DeclareInit ==
  /\ WorkflowIdle
  /\ JudgeIdle
  /\ ClientIdle
  /\ HandlesIdle
  /\ ParserIdle
  /\ MessageIdle
  /\ SocketIdle
  /\ TestIdle
  /\ LET maps == UNION {[D -> Names] : D \in SUBSET Names}
     IN tcmd \in
          [type : {"compile"}, code : Names, copy_in : maps, exec : Names]
            \cup [type : {"judge_batch"}, exec : Names, inf : Names,
                  copy_in : maps, copy_out : Names]
  /\ receivers = {}
  /\ tpc = "idle"
  /\ tpos = 0

\* parse makes one receiver for each name of get_copy_in and exec hands
\* them to the command.
Declare ==
  /\ tpc = "idle"
  /\ receivers' = GetCopyIn(tcmd)
  /\ tpc' = "await"
  /\ tpos' = 1
  /\ UNCHANGED <<tcmd, DeclareFrame>>

\* The command takes its next receiver out of copy_in_receivers; a name
\* that has no receiver panics the unwrap.
TakeReceiver ==
  /\ tpc = "await"
  /\ LET f == Awaits(tcmd)[tpos] IN
       IF f \notin receivers
       THEN /\ tpc' = "panicked"
            /\ UNCHANGED <<receivers, tpos>>
       ELSE /\ receivers' = receivers \ {f}
            /\ tpos' = tpos + 1
            /\ tpc' = IF tpos = Len(Awaits(tcmd)) THEN "running" ELSE "await"
  /\ UNCHANGED <<tcmd, DeclareFrame>>

DeclareNext ==
  \/ Declare
  \/ TakeReceiver

DeclareSpec == DeclareInit /\ [][DeclareNext]_<<vars, jvars, xvars>>

(***************************************************************************)
(* Properties of the declared inputs.                                      *)
(***************************************************************************)
\* The names the command got a receiver for: those it has taken and those
\* that are left.
Declared == receivers \cup {Awaits(tcmd)[k] : k \in 1..(tpos - 1)}

\* The file names the command awaits: its main inputs and the values of its
\* copy_in map.
AwaitedNames ==
  Range(MainInputs(tcmd)) \cup {tcmd.copy_in[k] : k \in DOMAIN tcmd.copy_in}

\* C31: the declared inputs of a command are its main inputs, code for a
\* compile command and exec and inf for a judge_batch command, with the
\* values of its copy_in map, so that every name the command awaits is
\* declared.
C31_DeclaredInputs ==
  tpc = "await" =>
    /\ Declared = AwaitedNames
    /\ Range(Awaits(tcmd)) \subseteq Declared

\* What holds instead: the declared inputs are the main inputs with the keys
\* of the copy_in map, and a command that awaits a name that is not among
\* them, or a name twice, panics before it runs its primitive.
DeclaredAreKeys ==
  /\ tpc = "await" =>
       Declared = Range(MainInputs(tcmd)) \cup DOMAIN tcmd.copy_in
  /\ tpc = "running" =>
       /\ AwaitedNames = Range(MainInputs(tcmd)) \cup DOMAIN tcmd.copy_in
       /\ receivers = {}

(***************************************************************************)
(* One test judged on its own: Test::judge of problem/mod.rs.              *)
(*                                                                         *)
(* A record is the constructor Test::judge calls with its arguments.       *)
(***************************************************************************)
\* The order of the two early returns after the join is exchanged.
TestRecordRunFirst(answer_ok, sol_result, checked_res) ==
  IF sol_result.status # "Accepted"
  THEN [new |-> "interrupted", result |-> sol_result.status]
  ELSE IF ~answer_ok
  THEN [new |-> "system_error", cause |-> "answer"]
  ELSE IF checked_res.ok
  THEN [new |-> "checked", result |-> sol_result.status, output |-> checked_res.output]
  ELSE [new |-> "system_error", cause |-> "checker"]

\* The record Test::judge returns once the answer and the run are both
\* over: checked_res is looked at only when the checker was called.
TestRecord(answer_ok, sol_result, checked_res) ==
  IF ~answer_ok
  THEN [new |-> "system_error", cause |-> "answer"]
  ELSE IF sol_result.status # "Accepted"
  THEN [new |-> "interrupted", result |-> sol_result.status]
  ELSE IF checked_res.ok
  THEN [new |-> "checked", result |-> sol_result.status, output |-> checked_res.output]
  ELSE [new |-> "system_error", cause |-> "checker"]

TestInit ==
  /\ WorkflowIdle
  /\ JudgeIdle
  /\ ClientIdle
  /\ HandlesIdle
  /\ ParserIdle
  /\ MessageIdle
  /\ DeclareIdle
  /\ SocketIdle
  /\ input_file = None
  /\ answer_file = None
  /\ execute_result = None
  /\ checker_result = None
  /\ test_record = None
  /\ first_done = "none"

\* The input of the test is made; when that fails the record is a system
\* error.
InputMake ==
  /\ ~input_file.some
  /\ \E ok \in BOOLEAN :
       /\ input_file' = Some([ok |-> ok])
       /\ test_record' =
            IF ok THEN None ELSE Some([new |-> "system_error", cause |-> "input"])
  /\ UNCHANGED <<answer_file, execute_result, checker_result, first_done, TestFrame>>

\* One of the futures of the join: the answer of the test is made.
AnswerMake ==
  /\ input_file.some
  /\ input_file.value.ok
  /\ ~answer_file.some
  /\ \E ok \in BOOLEAN : answer_file' = Some([ok |-> ok])
  /\ first_done' = IF first_done = "none" THEN "answer" ELSE first_done
  /\ UNCHANGED <<input_file, execute_result, checker_result, test_record, TestFrame>>

\* The other future of the join: judge_batch runs the user solution and
\* returns the result with the output file when the status is Accepted.
\* After an error of the transport Request::exec panics.
SolutionRun ==
  /\ input_file.some
  /\ input_file.value.ok
  /\ ~execute_result.some
  /\ \E resp \in Response :
       execute_result' =
         Some(IF resp.error
              THEN [status |-> "Panic", ouf |-> FALSE]
              ELSE [status |-> resp.status, ouf |-> OufSome(resp)])
  /\ first_done' = IF first_done = "none" THEN "run" ELSE first_done
  /\ UNCHANGED <<input_file, answer_file, checker_result, test_record, TestFrame>>

\* The join is over: the record is made, after a call of the checker when
\* the answer was made and the run is Accepted.
TestFinish ==
  /\ answer_file.some
  /\ execute_result.some
  /\ execute_result.value.status # "Panic"
  /\ ~test_record.some
  /\ IF answer_file.value.ok /\ execute_result.value.status = "Accepted"
     THEN \E c \in CheckResult :
            /\ checker_result' = Some(c)
            /\ test_record' = Some(TestRecord(TRUE, execute_result.value, c))
     ELSE /\ test_record' =
               Some(TestRecord(answer_file.value.ok, execute_result.value,
                               [ok |-> FALSE]))
          /\ UNCHANGED checker_result
  /\ UNCHANGED <<input_file, answer_file, execute_result, first_done, TestFrame>>

TestNext ==
  \/ InputMake
  \/ AnswerMake
  \/ SolutionRun
  \/ TestFinish

TestSpec == TestInit /\ [][TestNext]_<<vars, jvars, xvars>>

(***************************************************************************)
(* Properties of the pipeline of one test.                                 *)
(***************************************************************************)
\* The record that the outcomes of the answer, of the run and of the checker
\* stand for, whichever was over first.
RecordOfOutcomes ==
  IF ~answer_file.value.ok
  THEN [new |-> "system_error", cause |-> "answer"]
  ELSE IF execute_result.value.status # "Accepted"
  THEN [new |-> "interrupted", result |-> execute_result.value.status]
  ELSE IF checker_result.value.ok
  THEN [new |-> "checked", result |-> "Accepted",
        output |-> checker_result.value.output]
  ELSE [new |-> "system_error", cause |-> "checker"]

\* C33: the checker is called only once the run of the user solution is
\* over with Accepted and the answer is made; the run and the making of the
\* answer can be over in either order; and the record is the same in both
\* orders.
C33_CheckAfterRunAndAnswer ==
  /\ checker_result.some =>
       /\ execute_result.some
       /\ execute_result.value.status = "Accepted"
       /\ execute_result.value.ouf
       /\ answer_file.some
       /\ answer_file.value.ok
  /\ (input_file.some /\ input_file.value.ok) =>
       /\ ~answer_file.some => ENABLED AnswerMake
       /\ ~execute_result.some => ENABLED SolutionRun
  /\ (test_record.some /\ answer_file.some) =>
       /\ execute_result.some
       /\ test_record.value = RecordOfOutcomes

\* The same order in the test coroutines of Subtask::judge of problem.rs,
\* where the answers are uploaded before the runs: the checker of a test is
\* called only after its answer was uploaded and its run was Accepted.
PipelineCheckAfterRun ==
  \A i \in Subtasks(problem) : \A t \in TestsOf(problem, i) :
    <<"check", i, t>> \in ops =>
      /\ <<"upload answer", i, t>> \in ops
      /\ run[<<i, t>>].some
      /\ run[<<i, t>>].value.status = "Accepted"
      /\ run[<<i, t>>].value.ouf

C33_Witness ==
  /\ test_record.some
  /\ first_done = "run"
  /\ checker_result.some
  /\ test_record.value.new = "checked"

(***************************************************************************)
(* The WebSocket client of the sandbox: Client::run sends a request and    *)
(* registers the oneshot sender of its result in Client::senders, and the  *)
(* reader task hands each response to the sender registered under its      *)
(* request id.  run takes &mut self, so that one call is running at a      *)
(* time; the reader handles each message in a task of its own.             *)
(***************************************************************************)
MaxRequests == 3

\* The requests, each with its own uuid.
Requests == 1..MaxRequests

SocketInit ==
  /\ WorkflowIdle
  /\ JudgeIdle
  /\ ClientIdle
  /\ HandlesIdle
  /\ ParserIdle
  /\ MessageIdle
  /\ DeclareIdle
  /\ TestIdle
  /\ build \in {"crates", "service"}
  /\ rpc = [r \in Requests |-> "new"]
  /\ senders = {}
  /\ wire = {}
  /\ delivered = {}
  /\ lost = {}

\* No call of run other than that of request r is between its first and its
\* last statement.
RunFree(r) == \A q \in Requests \ {r} : rpc[q] \notin {"registered", "sent"}

\* ws_writer.send(..).await: the request reaches the sandbox, or the send
\* fails.  The run of crates/judge sends first; the run of src/service sends
\* once the sender is registered and returns the error of a failed send.
Send(r) ==
  /\ IF build = "crates"
     THEN rpc[r] = "new" /\ RunFree(r)
     ELSE rpc[r] = "registered"
  /\ \/ /\ wire' = wire \cup {r}
        /\ rpc' = [rpc EXCEPT ![r] = IF build = "crates" THEN "sent" ELSE "returned"]
     \/ /\ rpc' = [rpc EXCEPT ![r] = "failed"]
        /\ wire' = wire
  /\ UNCHANGED <<build, senders, delivered, lost, SocketFrame>>

\* senders.lock().unwrap().insert(request_id, tx): in the run of crates/judge
\* after the send returned Ok, in the run of src/service before the send.
Register(r) ==
  /\ IF build = "crates"
     THEN rpc[r] = "sent"
     ELSE rpc[r] = "new" /\ RunFree(r)
  /\ senders' = senders \cup {r}
  /\ rpc' = [rpc EXCEPT ![r] = IF build = "crates" THEN "returned" ELSE "registered"]
  /\ UNCHANGED <<build, wire, delivered, lost, SocketFrame>>

\* The reader gets the response to request r and removes the sender of r
\* from senders: the result is sent to the receiver, or remove returns None
\* and the unwrap panics in the task of the message.
Read(r) ==
  /\ r \in wire
  /\ wire' = wire \ {r}
  /\ IF r \in senders
     THEN /\ senders' = senders \ {r}
          /\ delivered' = delivered \cup {r}
          /\ lost' = lost
     ELSE /\ lost' = lost \cup {r}
          /\ UNCHANGED <<senders, delivered>>
  /\ UNCHANGED <<build, rpc, SocketFrame>>

SocketNext ==
  \/ \E r \in Requests : Send(r)
  \/ \E r \in Requests : Register(r)
  \/ \E r \in Requests : Read(r)

SocketSpec == SocketInit /\ [][SocketNext]_<<vars, jvars, xvars>>

(***************************************************************************)
(* Properties of the WebSocket client.                                     *)
(***************************************************************************)
\* The requests whose send succeeded and whose response the reader has got.
Answered == {r \in Requests : rpc[r] \in {"sent", "returned"} /\ r \notin wire}

\* C39: for every call of run whose send succeeds the response of the
\* request is delivered to the receiver the call returned, under every
\* interleaving of run with the reader: no response finds senders without
\* the sender of its request.
C39_ResponseDelivered ==
  /\ lost = {}
  /\ Answered \subseteq delivered

\* The run of src/service loses no response; the run of crates/judge loses
\* the response exactly when the reader got it before the sender was
\* registered, and the sender then stays in senders.
LostOnlyBeforeRegister ==
  /\ build = "service" => (lost = {} /\ Answered \subseteq delivered)
  /\ build = "crates" =>
       /\ Answered = delivered \cup lost
       /\ delivered \cap lost = {}
       /\ \A r \in lost : rpc[r] = "returned" => r \in senders
       /\ \A r \in delivered : rpc[r] = "returned"
====
